---- MODULE Spec2Model ----
(***************************************************************************)
(* State-machine model of the teaching OS simulator (simulator/*.py):      *)
(* OSSimulator (multi-level feedback queue, bounded buffer, mutex,         *)
(* counting resources), MemoryManager (FIFO paging) and FileSystem.        *)
(*                                                                         *)
(* Conventions                                                             *)
(*   - Python None is NoPid (0) for an Optional pid, NoneInt (-1) for an   *)
(*     Optional int, "" for an Optional str and <<>> for an Optional tuple.*)
(*   - A Python list or deque is a sequence; index i of the code is index  *)
(*     i + 1 of the model.                                                 *)
(*   - A dict is a function; its key set is the function's DOMAIN.         *)
(*   - A wait reason is the tuple of the parts the code concatenates:      *)
(*     "" is <<>>, a fixed reason is <<reason>>, and the f-string          *)
(*     "WaitResource" + name is <<WAIT_RESOURCE, name>>.                   *)
(*   - A log line "[t=clock] message" is <<clock, tag, ints, strs>>: the   *)
(*     message template and the values formatted into it.                  *)
(*   - ProcessAction carries the resource payload that os_simulator.py     *)
(*     passes to it and reads from it (action.resource); descriptions and  *)
(*     process names are immutable labels and are left out.                *)
(***************************************************************************)
EXTENDS Integers, Sequences, FiniteSets, TLC

VARIABLES
    clock,              \* OSSimulator.clock
    process_pool,       \* OSSimulator.process_pool : pid -> Process
    ready_queues,       \* OSSimulator.ready_queues : three deques of pids
    blocked,            \* OSSimulator.blocked
    finished,           \* OSSimulator.finished
    running,            \* OSSimulator.running (NoPid when None)
    frames,             \* MemoryManager.frames
    frame_table,        \* MemoryManager.frame_table
    replacement_queue,  \* MemoryManager.replacement_queue
    page_locations,     \* MemoryManager.page_locations
    last_access,        \* MemoryManager.last_access
    files,              \* FileSystem.files
    event_log,          \* OSSimulator.event_log
    buffer_slots,       \* OSSimulator.buffer_slots
    buffer_in,          \* OSSimulator.buffer_in
    buffer_out,         \* OSSimulator.buffer_out
    buffer_count,       \* OSSimulator.buffer_count
    mutex_owner,        \* OSSimulator.mutex_owner (NoPid when None)
    shared_resources,   \* OSSimulator.shared_resources
    next_pid,           \* OSSimulator.next_pid
    last_op,            \* the call that produced this state, with its result
    trace               \* results returned to a unit driver's direct calls, in order

vars == <<clock, process_pool, ready_queues, blocked, finished, running,
          frames, frame_table, replacement_queue, page_locations, last_access,
          files, event_log, buffer_slots, buffer_in, buffer_out, buffer_count,
          mutex_owner, shared_resources, next_pid, last_op, trace>>

----------------------------------------------------------------------------
(* Bounds of the model *)

MaxClock == 126
\* Direct calls a unit driver makes, and the largest page number it passes.
MaxAccesses == 5
MaxPage == 2
MaxCalls == 6
\* Ticks of a run under one of the Workloads.
MaxTicks == 30
\* Ticks of the uninterrupted run of the default templates.
MaxRun == 210

----------------------------------------------------------------------------
(* Python values *)

NoPid == 0
NoneInt == -1

EmptyMap == [x \in {} |-> 0]
MapPut(m, k, v) == [x \in (DOMAIN m) \cup {k} |-> IF x = k THEN v ELSE m[x]]
MapDel(m, k) == [x \in (DOMAIN m) \ {k} |-> m[x]]
MapGet(m, k, d) == IF k \in DOMAIN m THEN m[k] ELSE d

\* Python's `x or d` on an Optional[int]: None and 0 are both falsy.
OrInt(x, d) == IF x = NoneInt \/ x = 0 THEN d ELSE x
\* Python's `x or d` on an Optional[str]: None and "" are both falsy.
OrStr(x, d) == IF x = "" THEN d ELSE x

Max(a, b) == IF a >= b THEN a ELSE b
Min(a, b) == IF a <= b THEN a ELSE b

----------------------------------------------------------------------------
(* models.py *)

ProcessAction(kind, page, path, size, io_duration, resource) ==
    [kind |-> kind, page |-> page, path |-> path, size |-> size,
     io_duration |-> io_duration, resource |-> resource]

Cpu == ProcessAction("cpu", NoneInt, "", NoneInt, 0, "")
Io(d) == ProcessAction("io", NoneInt, "", NoneInt, d, "")
Mem(p) == ProcessAction("mem", p, "", NoneInt, 0, "")
Produce == ProcessAction("produce", NoneInt, "", NoneInt, 0, "")
Consume == ProcessAction("consume", NoneInt, "", NoneInt, 0, "")
FileAct(kind, path, size) == ProcessAction(kind, NoneInt, path, size, 0, "")
ResAct(kind, r) == ProcessAction(kind, NoneInt, "", NoneInt, 0, r)

Process(pid, arrival_time, actions, memory_pages) ==
    [pid |-> pid, arrival_time |-> arrival_time, actions |-> actions,
     memory_pages |-> memory_pages, state |-> "New", pointer |-> 0,
     current_quantum |-> 0, io_timer |-> 0, queue_level |-> 0,
     wait_reason |-> <<>>, page_table |-> EmptyMap]

next_action(proc) ==
    IF proc.pointer < Len(proc.actions) THEN proc.actions[proc.pointer + 1]
    ELSE [kind |-> "None"]

advance(proc) == [proc EXCEPT !.pointer = @ + 1]

remaining_actions(proc) == Max(Len(proc.actions) - proc.pointer, 0)

mark_blocked(proc, duration) ==
    [proc EXCEPT !.state = "Blocked", !.io_timer = duration,
                 !.current_quantum = 0, !.wait_reason = <<>>]

mark_wait(proc, reason) ==
    [proc EXCEPT !.state = "Blocked", !.wait_reason = reason,
                 !.current_quantum = 0]

\* Mutant of tick_block: the process wakes one tick early.
tick_block_early(proc) ==
    LET timer == IF proc.io_timer > 0 THEN proc.io_timer - 1 ELSE proc.io_timer
        p1 == [proc EXCEPT !.io_timer = timer]
    IN  IF timer <= 1 /\ proc.wait_reason = <<>>
        THEN [proc |-> [p1 EXCEPT !.state = "Ready"], woke |-> TRUE]
        ELSE [proc |-> p1, woke |-> FALSE]

\* tick_block mutates the process and returns a bool: [proc, woke].
tick_block(proc) ==
    LET timer == IF proc.io_timer > 0 THEN proc.io_timer - 1 ELSE proc.io_timer
        p1 == [proc EXCEPT !.io_timer = timer]
    IN  IF timer = 0 /\ proc.wait_reason = <<>>
        THEN [proc |-> [p1 EXCEPT !.state = "Ready"], woke |-> TRUE]
        ELSE [proc |-> p1, woke |-> FALSE]

\* Mutant of ready_from_wait: the wait reason is not cleared.
ready_from_wait_keeps_reason(proc) == [proc EXCEPT !.state = "Ready"]

ready_from_wait(proc) == [proc EXCEPT !.wait_reason = <<>>, !.state = "Ready"]

finish(proc) == [proc EXCEPT !.state = "Finished", !.current_quantum = 0]

reset_runtime(proc) == [proc EXCEPT !.current_quantum = 0]

----------------------------------------------------------------------------
(* The simulator state as one value; every method is an operator on it. *)

State ==
    [clock |-> clock, process_pool |-> process_pool, ready_queues |-> ready_queues,
     blocked |-> blocked, finished |-> finished, running |-> running,
     frames |-> frames, frame_table |-> frame_table,
     replacement_queue |-> replacement_queue, page_locations |-> page_locations,
     last_access |-> last_access, files |-> files, event_log |-> event_log,
     buffer_slots |-> buffer_slots, buffer_in |-> buffer_in,
     buffer_out |-> buffer_out, buffer_count |-> buffer_count,
     mutex_owner |-> mutex_owner, shared_resources |-> shared_resources,
     next_pid |-> next_pid]

----------------------------------------------------------------------------
(* memory.py *)

\* MemoryManager.__init__ / reset: the four fields for `n` frames.
memory_reset(s, n) ==
    [s EXCEPT !.frames = n,
              !.frame_table = [i \in 1..n |-> <<>>],
              !.replacement_queue = [i \in 1..n |-> i - 1],
              !.page_locations = EmptyMap,
              !.last_access = NoneInt]

\* Mutant of access_page: a hit moves the frame to the back of the
\* replacement queue (least-recently-used instead of first-in-first-out).
access_page_lru(s, pid, page) ==
    LET process == s.process_pool[pid]
        normalized == page % Max(process.memory_pages, 1)
        key == <<pid, normalized>>
    IN  IF key \in DOMAIN s.page_locations
        THEN LET frame == s.page_locations[key]
             IN  [st |-> [s EXCEPT !.last_access = frame,
                                   !.replacement_queue =
                                       Append(SelectSeq(@, LAMBDA f : f # frame), frame)],
                  fault |-> FALSE, frame |-> frame, evicted |-> <<>>]
        ELSE LET frame == Head(s.replacement_queue)
                 evicted == s.frame_table[frame + 1]
                 locs == IF evicted # <<>> /\ evicted \in DOMAIN s.page_locations
                         THEN MapDel(s.page_locations, evicted)
                         ELSE s.page_locations
             IN  [st |-> [s EXCEPT
                            !.replacement_queue = Append(Tail(@), frame),
                            !.frame_table[frame + 1] = key,
                            !.page_locations = MapPut(locs, key, frame),
                            !.last_access = frame,
                            !.process_pool[pid].page_table =
                                MapPut(@, normalized, frame)],
                  fault |-> TRUE, frame |-> frame, evicted |-> evicted]

\* access_page looking up the virtual page as given.
access_page_raw(s, pid, page) ==
    LET process == s.process_pool[pid]
        normalized == page
        key == <<pid, normalized>>
    IN  IF key \in DOMAIN s.page_locations
        THEN LET frame == s.page_locations[key]
             IN  [st |-> [s EXCEPT !.last_access = frame],
                  fault |-> FALSE, frame |-> frame, evicted |-> <<>>]
        ELSE LET frame == Head(s.replacement_queue)
                 evicted == s.frame_table[frame + 1]
                 locs == IF evicted # <<>> /\ evicted \in DOMAIN s.page_locations
                         THEN MapDel(s.page_locations, evicted)
                         ELSE s.page_locations
             IN  [st |-> [s EXCEPT
                            !.replacement_queue = Append(Tail(@), frame),
                            !.frame_table[frame + 1] = key,
                            !.page_locations = MapPut(locs, key, frame),
                            !.last_access = frame,
                            !.process_pool[pid].page_table =
                                MapPut(@, normalized, frame)],
                  fault |-> TRUE, frame |-> frame, evicted |-> evicted]

\* Mutant of access_page: the frame just filled goes back to the head of the
\* replacement queue.
access_page_stack(s, pid, page) ==
    LET process == s.process_pool[pid]
        normalized == page % Max(process.memory_pages, 1)
        key == <<pid, normalized>>
    IN  IF key \in DOMAIN s.page_locations
        THEN LET frame == s.page_locations[key]
             IN  [st |-> [s EXCEPT !.last_access = frame],
                  fault |-> FALSE, frame |-> frame, evicted |-> <<>>]
        ELSE LET frame == Head(s.replacement_queue)
                 evicted == s.frame_table[frame + 1]
                 locs == IF evicted # <<>> /\ evicted \in DOMAIN s.page_locations
                         THEN MapDel(s.page_locations, evicted)
                         ELSE s.page_locations
             IN  [st |-> [s EXCEPT
                            !.replacement_queue = <<frame>> \o Tail(@),
                            !.frame_table[frame + 1] = key,
                            !.page_locations = MapPut(locs, key, frame),
                            !.last_access = frame,
                            !.process_pool[pid].page_table =
                                MapPut(@, normalized, frame)],
                  fault |-> TRUE, frame |-> frame, evicted |-> evicted]

\* access_page returns (page_fault, frame, evicted_page) and mutates the
\* manager and the accessing process's page table: [st, fault, frame, evicted].
access_page(s, pid, page) ==
    LET process == s.process_pool[pid]
        normalized == page % Max(process.memory_pages, 1)
        key == <<pid, normalized>>
    IN  IF key \in DOMAIN s.page_locations
        THEN LET frame == s.page_locations[key]
             IN  [st |-> [s EXCEPT !.last_access = frame],
                  fault |-> FALSE, frame |-> frame, evicted |-> <<>>]
        ELSE LET frame == Head(s.replacement_queue)
                 evicted == s.frame_table[frame + 1]
                 locs == IF evicted # <<>> /\ evicted \in DOMAIN s.page_locations
                         THEN MapDel(s.page_locations, evicted)
                         ELSE s.page_locations
             IN  [st |-> [s EXCEPT
                            !.replacement_queue = Append(Tail(@), frame),
                            !.frame_table[frame + 1] = key,
                            !.page_locations = MapPut(locs, key, frame),
                            !.last_access = frame,
                            !.process_pool[pid].page_table =
                                MapPut(@, normalized, frame)],
                  fault |-> TRUE, frame |-> frame, evicted |-> evicted]

----------------------------------------------------------------------------
(* filesystem.py: each method mutates files and returns a message. *)

FileEntry(owner, size, content) == [owner |-> owner, size |-> size, content |-> content]

\* content is "" * size, always the empty string; "#" * n is modelled by n.
fs_create(s, path, owner, size) ==
    IF path \in DOMAIN s.files
    THEN [st |-> s, msg |-> <<"file_exists", <<>>, <<path>>>>]
    ELSE [st |-> [s EXCEPT !.files = MapPut(@, path, FileEntry(owner, size, 0))],
          msg |-> <<"file_created", <<owner, size>>, <<path>>>>]

fs_write(s, path, owner, size) ==
    IF path \notin DOMAIN s.files
    THEN [st |-> [s EXCEPT !.files = MapPut(@, path, FileEntry(owner, size, 0))],
          msg |-> <<"file_write_new", <<owner, size>>, <<path>>>>]
    ELSE [st |-> [s EXCEPT !.files[path].size = @ + size,
                           !.files[path].content = @ + size],
          msg |-> <<"file_extended", <<owner, size>>, <<path>>>>]

fs_read(s, path, owner) ==
    IF path \notin DOMAIN s.files
    THEN [st |-> s, msg |-> <<"file_read_missing", <<owner>>, <<path>>>>]
    ELSE [st |-> s, msg |-> <<"file_read", <<owner, s.files[path].size>>, <<path>>>>]

fs_delete(s, path, owner) ==
    IF path \notin DOMAIN s.files
    THEN [st |-> s, msg |-> <<"file_delete_missing", <<owner>>, <<path>>>>]
    ELSE [st |-> [s EXCEPT !.files = MapDel(@, path)],
          msg |-> <<"file_deleted", <<owner>>, <<path>>>>]

fs_reset(s) == [s EXCEPT !.files = EmptyMap]

----------------------------------------------------------------------------
(* os_simulator.py: configuration set by __init__ *)

FRAMES == 20
buffer_capacity == 5
queue_quantums == <<1, 2, 4>>
initial_resources == [r \in {"tape", "GPU", "printer"} |->
                        IF r = "printer" THEN 2 ELSE 1]

WAIT_SLOT == <<"WaitSlot">>
WAIT_PRODUCT == <<"WaitProduct">>
WAIT_MUTEX == <<"WaitMutex">>
WAIT_RESOURCE == "WaitResource"

default_templates ==
    << Process(1, 0, <<Produce, Mem(0), Produce, Produce, Cpu, Produce, Produce>>, 3),
       Process(2, 0, <<Consume, Mem(1), Consume, Io(1), Consume, Consume>>, 3),
       Process(3, 1, <<Produce, Produce, Mem(1), Produce, Cpu, Produce>>, 3),
       Process(4, 3, <<FileAct("file_create", "/backup/log", 1), Mem(0), Cpu,
                       FileAct("file_write", "/backup/image", 8), Io(2), Mem(2),
                       FileAct("file_delete", "/backup/old", NoneInt),
                       ResAct("res_acquire", "tape"), Cpu,
                       ResAct("res_release", "tape")>>, 4),
       Process(5, 2, <<Consume, Mem(1), Consume, Consume>>, 2),
       Process(6, 2, <<Cpu, Mem(2), FileAct("file_read", "/data/users", 2), Cpu,
                       ResAct("res_acquire", "GPU"), Io(1), Mem(3),
                       ResAct("res_release", "GPU"), Cpu>>, 5) >>

dynamic_templates ==
    << <<Cpu, Mem(0), Cpu>>,
       <<ResAct("res_acquire", "printer"), Cpu, Mem(2),
         ResAct("res_release", "printer")>>,
       <<Mem(1), Io(1), FileAct("file_read", "/etc/conf", 1), Cpu>> >>

\* _log: append "[t=clock] message".
Log(s, tag, ints, strs) ==
    [s EXCEPT !.event_log = Append(@, <<s.clock, tag, ints, strs>>)]

\* The attributes __init__ assigns, before any reset(): the pool is empty.
Constructed ==
    memory_reset(
        [clock |-> 0, process_pool |-> <<>>, ready_queues |-> <<<<>>, <<>>, <<>>>>,
         blocked |-> <<>>, finished |-> <<>>, running |-> NoPid,
         frames |-> FRAMES, frame_table |-> <<>>, replacement_queue |-> <<>>,
         page_locations |-> EmptyMap, last_access |-> NoneInt,
         files |-> EmptyMap, event_log |-> <<>>,
         buffer_slots |-> [i \in 1..buffer_capacity |-> NoPid],
         buffer_in |-> 0, buffer_out |-> 0, buffer_count |-> 0,
         mutex_owner |-> NoPid, shared_resources |-> initial_resources,
         next_pid |-> Len(default_templates) + 1],
        FRAMES)

\* reset(): everything is rebuilt except shared_resources, which reset()
\* does not assign.
reset(s) ==
    LET s1 == [s EXCEPT !.clock = 0,
                        !.process_pool = default_templates,
                        !.ready_queues = <<<<>>, <<>>, <<>>>>,
                        !.blocked = <<>>,
                        !.finished = <<>>,
                        !.running = NoPid]
        s2 == fs_reset(memory_reset(s1, s1.frames))
    IN  [s2 EXCEPT !.event_log = <<>>,
                   !.buffer_slots = [i \in 1..buffer_capacity |-> NoPid],
                   !.buffer_in = 0,
                   !.buffer_out = 0,
                   !.buffer_count = 0,
                   !.mutex_owner = NoPid,
                   !.next_pid = Len(default_templates) + 1]

\* Mutant of spawn_dynamic_job: the new process is left in state New.
spawn_dynamic_job_new(s) ==
    LET index == (s.clock \div 3) % Len(dynamic_templates)
        pid == s.next_pid
        proc == [Process(pid, s.clock, dynamic_templates[index + 1], 3)
                    EXCEPT !.queue_level = 0]
        s1 == [s EXCEPT !.process_pool = MapPut(@, pid, proc),
                        !.next_pid = @ + 1,
                        !.ready_queues[1] = Append(@, pid)]
    IN  Log(s1, "spawned", <<pid>>, <<>>)

spawn_dynamic_job(s) ==
    LET index == (s.clock \div 3) % Len(dynamic_templates)
        pid == s.next_pid
        proc == [Process(pid, s.clock, dynamic_templates[index + 1], 3)
                    EXCEPT !.state = "Ready", !.queue_level = 0]
        s1 == [s EXCEPT !.process_pool = MapPut(@, pid, proc),
                        !.next_pid = @ + 1,
                        !.ready_queues[1] = Append(@, pid)]
    IN  Log(s1, "spawned", <<pid>>, <<>>)

\* Mutant of dispatch_if_needed: the scan starts at the last queue.
dispatch_from_last_queue(s) ==
    IF s.running # NoPid THEN s
    ELSE LET nonempty == {l \in 0..2 : s.ready_queues[l + 1] # <<>>}
         IN  IF nonempty = {} THEN s
             ELSE LET level == CHOOSE l \in nonempty : \A m \in nonempty : l >= m
                      pid == Head(s.ready_queues[level + 1])
                      s1 == [s EXCEPT
                               !.ready_queues[level + 1] = Tail(@),
                               !.running = pid,
                               !.process_pool[pid] =
                                   [reset_runtime(@) EXCEPT !.state = "Running",
                                                            !.queue_level = level]]
                  IN  Log(s1, "dispatch", <<pid, level, queue_quantums[level + 1]>>, <<>>)

\* Mutant of dispatch_if_needed: a process waiting in queue 0 displaces a
\* running process of a lower priority.
dispatch_preemptive(s) ==
    LET displaced == /\ s.running # NoPid
                     /\ s.ready_queues[1] # <<>>
                     /\ s.process_pool[s.running].queue_level > 0
        s0 == IF displaced
              THEN [s EXCEPT !.running = NoPid,
                             !.process_pool[s.running].state = "Ready",
                             !.ready_queues[s.process_pool[s.running].queue_level + 1] =
                                 Append(@, s.running)]
              ELSE s
    IN  IF s0.running # NoPid THEN s0
        ELSE LET nonempty == {l \in 0..2 : s0.ready_queues[l + 1] # <<>>}
             IN  IF nonempty = {} THEN s0
                 ELSE LET level == CHOOSE l \in nonempty : \A m \in nonempty : l <= m
                          pid == Head(s0.ready_queues[level + 1])
                          s1 == [s0 EXCEPT
                                   !.ready_queues[level + 1] = Tail(@),
                                   !.running = pid,
                                   !.process_pool[pid] =
                                       [reset_runtime(@) EXCEPT !.state = "Running",
                                                                !.queue_level = level]]
                      IN  Log(s1, "dispatch", <<pid, level, queue_quantums[level + 1]>>, <<>>)

\* Mutant of dispatch_if_needed: only ready queue 0 is looked at.
dispatch_first_queue_only(s) ==
    IF s.running # NoPid THEN s
    ELSE LET nonempty == {l \in {0} : s.ready_queues[l + 1] # <<>>}
         IN  IF nonempty = {} THEN s
             ELSE LET level == CHOOSE l \in nonempty : \A m \in nonempty : l <= m
                      pid == Head(s.ready_queues[level + 1])
                      s1 == [s EXCEPT
                               !.ready_queues[level + 1] = Tail(@),
                               !.running = pid,
                               !.process_pool[pid] =
                                   [reset_runtime(@) EXCEPT !.state = "Running",
                                                            !.queue_level = level]]
                  IN  Log(s1, "dispatch", <<pid, level, queue_quantums[level + 1]>>, <<>>)

dispatch_if_needed(s) ==
    IF s.running # NoPid THEN s
    ELSE LET nonempty == {l \in 0..2 : s.ready_queues[l + 1] # <<>>}
         IN  IF nonempty = {} THEN s
             ELSE LET level == CHOOSE l \in nonempty : \A m \in nonempty : l <= m
                      pid == Head(s.ready_queues[level + 1])
                      s1 == [s EXCEPT
                               !.ready_queues[level + 1] = Tail(@),
                               !.running = pid,
                               !.process_pool[pid] =
                                   [reset_runtime(@) EXCEPT !.state = "Running",
                                                            !.queue_level = level]]
                  IN  Log(s1, "dispatch", <<pid, level, queue_quantums[level + 1]>>, <<>>)

\* Mutant of can_wake_from_wait: a producer wakes although the buffer is full.
can_wake_from_wait_full(s, proc) ==
    IF proc.wait_reason = WAIT_SLOT THEN s.buffer_count <= buffer_capacity
    ELSE IF proc.wait_reason = WAIT_PRODUCT THEN s.buffer_count > 0
    ELSE IF proc.wait_reason = WAIT_MUTEX THEN s.mutex_owner = NoPid
    ELSE IF Len(proc.wait_reason) = 2 /\ proc.wait_reason[1] = WAIT_RESOURCE
         THEN MapGet(s.shared_resources, proc.wait_reason[2], 0) > 0
    ELSE FALSE

can_wake_from_wait(s, proc) ==
    IF proc.wait_reason = WAIT_SLOT THEN s.buffer_count < buffer_capacity
    ELSE IF proc.wait_reason = WAIT_PRODUCT THEN s.buffer_count > 0
    ELSE IF proc.wait_reason = WAIT_MUTEX THEN s.mutex_owner = NoPid
    ELSE IF Len(proc.wait_reason) = 2 /\ proc.wait_reason[1] = WAIT_RESOURCE
         THEN MapGet(s.shared_resources, proc.wait_reason[2], 0) > 0
    ELSE FALSE

\* First loop of _handle_blocked over list(self.blocked): [st, newly_ready].
RECURSIVE wake_scan(_, _, _)
wake_scan(s, todo, newly_ready) ==
    IF todo = <<>> THEN [st |-> s, newly_ready |-> newly_ready]
    ELSE LET pid == Head(todo)
             proc == s.process_pool[pid]
         IN  IF proc.wait_reason # <<>>
             THEN IF can_wake_from_wait(s, proc)
                  THEN wake_scan([s EXCEPT !.process_pool[pid] = ready_from_wait(@)],
                                 Tail(todo),
                                 Append(newly_ready, <<pid, proc.wait_reason>>))
                  ELSE wake_scan(s, Tail(todo), newly_ready)
             ELSE LET r == tick_block(proc)
                      s1 == [s EXCEPT !.process_pool[pid] = r.proc]
                  IN  wake_scan(s1, Tail(todo),
                                IF r.woke THEN Append(newly_ready, <<pid, <<>>>>)
                                ELSE newly_ready)

\* Mutant of wake_enqueue: a woken process returns to the queue of the level
\* it had when it blocked.
RECURSIVE wake_enqueue_keeps_level(_, _)
wake_enqueue_keeps_level(s, newly_ready) ==
    IF newly_ready = <<>> THEN s
    ELSE LET pid == Head(newly_ready)[1]
             reason == Head(newly_ready)[2]
             s1 == [s EXCEPT !.ready_queues[s.process_pool[pid].queue_level + 1] =
                                 Append(@, pid)]
             s2 == IF reason # <<>> THEN Log(s1, "woke_reason", <<pid>>, reason)
                   ELSE Log(s1, "woke_io", <<pid>>, <<>>)
         IN  wake_enqueue_keeps_level(s2, Tail(newly_ready))

\* Second loop of _handle_blocked over newly_ready.
RECURSIVE wake_enqueue(_, _)
wake_enqueue(s, newly_ready) ==
    IF newly_ready = <<>> THEN s
    ELSE LET pid == Head(newly_ready)[1]
             reason == Head(newly_ready)[2]
             s1 == [s EXCEPT !.process_pool[pid].queue_level = 0,
                             !.ready_queues[1] = Append(@, pid)]
             s2 == IF reason # <<>> THEN Log(s1, "woke_reason", <<pid>>, reason)
                   ELSE Log(s1, "woke_io", <<pid>>, <<>>)
         IN  wake_enqueue(s2, Tail(newly_ready))

handle_blocked(s) ==
    LET r == wake_scan(s, s.blocked, <<>>)
        s1 == [r.st EXCEPT !.blocked =
                  SelectSeq(@, LAMBDA p : r.st.process_pool[p].state = "Blocked")]
    IN  wake_enqueue(s1, r.newly_ready)

\* Mutant of complete_process: the running slot is not cleared.
complete_process_keeps_running(s, pid) ==
    LET s1 == [s EXCEPT !.process_pool[pid] = finish(@),
                        !.finished = Append(@, pid)]
    IN  Log(s1, "completed", <<pid>>, <<>>)

complete_process(s, pid) ==
    LET s1 == [s EXCEPT !.process_pool[pid] = finish(@),
                        !.finished = Append(@, pid)]
    IN  [Log(s1, "completed", <<pid>>, <<>>) EXCEPT !.running = NoPid]

\* Mutant of preempt: the process goes back to the queue of its own level.
preempt_same_level(s, pid) ==
    LET level == s.process_pool[pid].queue_level
        s1 == [s EXCEPT !.process_pool[pid].state = "Ready",
                        !.process_pool[pid].current_quantum = 0,
                        !.process_pool[pid].queue_level = level,
                        !.ready_queues[level + 1] = Append(@, pid)]
    IN  [Log(s1, "preempted", <<pid, level>>, <<>>) EXCEPT !.running = NoPid]

\* Mutant of preempt: the running slot is not cleared.
preempt_keeps_running(s, pid) ==
    LET level == Min(s.process_pool[pid].queue_level + 1, Len(s.ready_queues) - 1)
        s1 == [s EXCEPT !.process_pool[pid].state = "Ready",
                        !.process_pool[pid].current_quantum = 0,
                        !.process_pool[pid].queue_level = level,
                        !.ready_queues[level + 1] = Append(@, pid)]
    IN  Log(s1, "preempted", <<pid, level>>, <<>>)

preempt(s, pid) ==
    LET level == Min(s.process_pool[pid].queue_level + 1, Len(s.ready_queues) - 1)
        s1 == [s EXCEPT !.process_pool[pid].state = "Ready",
                        !.process_pool[pid].current_quantum = 0,
                        !.process_pool[pid].queue_level = level,
                        !.ready_queues[level + 1] = Append(@, pid)]
    IN  [Log(s1, "preempted", <<pid, level>>, <<>>) EXCEPT !.running = NoPid]

block(s, pid, duration) ==
    LET s1 == [s EXCEPT !.process_pool[pid] = mark_blocked(@, duration),
                        !.blocked = Append(@, pid)]
    IN  [Log(s1, "blocked_io", <<pid, duration>>, <<>>) EXCEPT !.running = NoPid]

block_reason(s, pid, reason) ==
    LET s1 == [s EXCEPT !.process_pool[pid] = mark_wait(@, reason),
                        !.blocked = Append(@, pid)]
    IN  [Log(s1, "blocked_reason", <<pid>>, reason) EXCEPT !.running = NoPid]

\* Mutant of execute_memory: the evicted owner's page table is left alone.
execute_memory_keeps_evicted(s, pid, action) ==
    LET r == access_page(s, pid, OrInt(action.page, 0))
    IN  IF r.fault
        THEN Log(r.st, "page_fault", <<pid, action.page, r.frame>> \o r.evicted, <<>>)
        ELSE Log(r.st, "page_hit", <<pid, r.frame>>, <<>>)

execute_memory(s, pid, action) ==
    LET r == access_page(s, pid, OrInt(action.page, 0))
    IN  IF r.fault
        THEN LET s1 == IF r.evicted # <<>> /\ r.evicted[1] \in DOMAIN r.st.process_pool
                       THEN [r.st EXCEPT !.process_pool[r.evicted[1]].page_table =
                                            MapDel(@, r.evicted[2])]
                       ELSE r.st
             IN  Log(s1, "page_fault", <<pid, action.page, r.frame>> \o r.evicted, <<>>)
        ELSE Log(r.st, "page_hit", <<pid, r.frame>>, <<>>)

\* _with_mutex returns a bool and may block the process: [st, ok].
with_mutex(s, pid) ==
    IF s.mutex_owner = NoPid THEN [st |-> [s EXCEPT !.mutex_owner = pid], ok |-> TRUE]
    ELSE IF s.mutex_owner = pid THEN [st |-> s, ok |-> TRUE]
    ELSE [st |-> block_reason(s, pid, WAIT_MUTEX), ok |-> FALSE]

\* Mutant of release_mutex: the ownership test is dropped.
release_mutex_by_anyone(s, pid) == [s EXCEPT !.mutex_owner = NoPid]

\* Mutant of release_mutex: the owner keeps the mutex.
release_mutex_never(s, pid) == s

release_mutex(s, pid) ==
    IF s.mutex_owner = pid THEN [s EXCEPT !.mutex_owner = NoPid] ELSE s

\* Mutant of execute_pc_action: the full test is off by one (> for >=).
execute_pc_action_overfill(s, pid, action) ==
    LET m == with_mutex(s, pid)
        s0 == m.st
    IN  IF ~m.ok THEN s0
        ELSE IF action.kind = "produce"
        THEN IF s0.buffer_count > buffer_capacity
             THEN block_reason(release_mutex(s0, pid), pid, WAIT_SLOT)
             ELSE LET slot == s0.buffer_in
                      s1 == [s0 EXCEPT !.buffer_slots[slot + 1] = pid,
                                       !.buffer_in = (slot + 1) % buffer_capacity,
                                       !.buffer_count = @ + 1]
                  IN  release_mutex(
                          Log(s1, "produced", <<pid, slot, s1.buffer_count>>, <<>>), pid)
        ELSE IF action.kind = "consume"
        THEN IF s0.buffer_count <= 0
             THEN block_reason(release_mutex(s0, pid), pid, WAIT_PRODUCT)
             ELSE LET slot == s0.buffer_out
                      owner == s0.buffer_slots[slot + 1]
                      s1 == [s0 EXCEPT !.buffer_slots[slot + 1] = NoPid,
                                       !.buffer_out = (slot + 1) % buffer_capacity,
                                       !.buffer_count = @ - 1]
                  IN  release_mutex(
                          Log(s1, "consumed", <<pid, slot, owner, s1.buffer_count>>, <<>>),
                          pid)
        ELSE release_mutex(s0, pid)

\* Mutant of execute_pc_action: a failed produce or consume keeps the mutex.
execute_pc_action_holds_mutex(s, pid, action) ==
    LET m == with_mutex(s, pid)
        s0 == m.st
    IN  IF ~m.ok THEN s0
        ELSE IF action.kind = "produce"
        THEN IF s0.buffer_count >= buffer_capacity
             THEN block_reason(s0, pid, WAIT_SLOT)
             ELSE LET slot == s0.buffer_in
                      s1 == [s0 EXCEPT !.buffer_slots[slot + 1] = pid,
                                       !.buffer_in = (slot + 1) % buffer_capacity,
                                       !.buffer_count = @ + 1]
                  IN  release_mutex(
                          Log(s1, "produced", <<pid, slot, s1.buffer_count>>, <<>>), pid)
        ELSE IF action.kind = "consume"
        THEN IF s0.buffer_count <= 0
             THEN block_reason(s0, pid, WAIT_PRODUCT)
             ELSE LET slot == s0.buffer_out
                      owner == s0.buffer_slots[slot + 1]
                      s1 == [s0 EXCEPT !.buffer_slots[slot + 1] = NoPid,
                                       !.buffer_out = (slot + 1) % buffer_capacity,
                                       !.buffer_count = @ - 1]
                  IN  release_mutex(
                          Log(s1, "consumed", <<pid, slot, owner, s1.buffer_count>>, <<>>),
                          pid)
        ELSE release_mutex(s0, pid)

\* Mutant of execute_pc_action: a consume takes the newest product.
execute_pc_action_lifo(s, pid, action) ==
    LET m == with_mutex(s, pid)
        s0 == m.st
    IN  IF ~m.ok THEN s0
        ELSE IF action.kind = "produce"
        THEN IF s0.buffer_count >= buffer_capacity
             THEN block_reason(release_mutex(s0, pid), pid, WAIT_SLOT)
             ELSE LET slot == s0.buffer_in
                      s1 == [s0 EXCEPT !.buffer_slots[slot + 1] = pid,
                                       !.buffer_in = (slot + 1) % buffer_capacity,
                                       !.buffer_count = @ + 1]
                  IN  release_mutex(
                          Log(s1, "produced", <<pid, slot, s1.buffer_count>>, <<>>), pid)
        ELSE IF action.kind = "consume"
        THEN IF s0.buffer_count <= 0
             THEN block_reason(release_mutex(s0, pid), pid, WAIT_PRODUCT)
             ELSE LET slot == (s0.buffer_in + buffer_capacity - 1) % buffer_capacity
                      owner == s0.buffer_slots[slot + 1]
                      s1 == [s0 EXCEPT !.buffer_slots[slot + 1] = NoPid,
                                       !.buffer_in = slot,
                                       !.buffer_count = @ - 1]
                  IN  release_mutex(
                          Log(s1, "consumed", <<pid, slot, owner, s1.buffer_count>>, <<>>),
                          pid)
        ELSE release_mutex(s0, pid)

execute_pc_action(s, pid, action) ==
    LET m == with_mutex(s, pid)
        s0 == m.st
    IN  IF ~m.ok THEN s0
        ELSE IF action.kind = "produce"
        THEN IF s0.buffer_count >= buffer_capacity
             THEN block_reason(release_mutex(s0, pid), pid, WAIT_SLOT)
             ELSE LET slot == s0.buffer_in
                      s1 == [s0 EXCEPT !.buffer_slots[slot + 1] = pid,
                                       !.buffer_in = (slot + 1) % buffer_capacity,
                                       !.buffer_count = @ + 1]
                  IN  release_mutex(
                          Log(s1, "produced", <<pid, slot, s1.buffer_count>>, <<>>), pid)
        ELSE IF action.kind = "consume"
        THEN IF s0.buffer_count <= 0
             THEN block_reason(release_mutex(s0, pid), pid, WAIT_PRODUCT)
             ELSE LET slot == s0.buffer_out
                      owner == s0.buffer_slots[slot + 1]
                      s1 == [s0 EXCEPT !.buffer_slots[slot + 1] = NoPid,
                                       !.buffer_out = (slot + 1) % buffer_capacity,
                                       !.buffer_count = @ - 1]
                  IN  release_mutex(
                          Log(s1, "consumed", <<pid, slot, owner, s1.buffer_count>>, <<>>),
                          pid)
        ELSE release_mutex(s0, pid)

\* Mutant of execute_resource_action: a release wakes the waiters at once.
execute_resource_action_signal(s, pid, action) ==
    LET resource == OrStr(action.resource, "unknown")
    IN  IF action.kind = "res_acquire"
        THEN IF MapGet(s.shared_resources, resource, 0) <= 0
             THEN block_reason(s, pid, <<WAIT_RESOURCE, resource>>)
             ELSE LET s1 == [s EXCEPT !.shared_resources[resource] = @ - 1]
                  IN  Log(s1, "acquired", <<pid, s1.shared_resources[resource]>>,
                          <<resource>>)
        ELSE LET s1 == [s EXCEPT !.shared_resources =
                           MapPut(@, resource, MapGet(@, resource, 0) + 1)]
             IN  handle_blocked(Log(s1, "released", <<pid, s1.shared_resources[resource]>>,
                                    <<resource>>))

\* Mutant of execute_resource_action: the availability test is < 0 for <= 0.
execute_resource_action_negative(s, pid, action) ==
    LET resource == OrStr(action.resource, "unknown")
    IN  IF action.kind = "res_acquire"
        THEN IF MapGet(s.shared_resources, resource, 0) < 0
             THEN block_reason(s, pid, <<WAIT_RESOURCE, resource>>)
             ELSE LET s1 == [s EXCEPT !.shared_resources[resource] = @ - 1]
                  IN  Log(s1, "acquired", <<pid, s1.shared_resources[resource]>>,
                          <<resource>>)
        ELSE LET s1 == [s EXCEPT !.shared_resources =
                           MapPut(@, resource, MapGet(@, resource, 0) + 1)]
             IN  Log(s1, "released", <<pid, s1.shared_resources[resource]>>,
                     <<resource>>)

execute_resource_action(s, pid, action) ==
    LET resource == OrStr(action.resource, "unknown")
    IN  IF action.kind = "res_acquire"
        THEN IF MapGet(s.shared_resources, resource, 0) <= 0
             THEN block_reason(s, pid, <<WAIT_RESOURCE, resource>>)
             ELSE LET s1 == [s EXCEPT !.shared_resources[resource] = @ - 1]
                  IN  Log(s1, "acquired", <<pid, s1.shared_resources[resource]>>,
                          <<resource>>)
        ELSE LET s1 == [s EXCEPT !.shared_resources =
                           MapPut(@, resource, MapGet(@, resource, 0) + 1)]
             IN  Log(s1, "released", <<pid, s1.shared_resources[resource]>>,
                     <<resource>>)

execute_file_action(s, pid, action) ==
    LET path == action.path
        size == OrInt(action.size, 0)
        r == IF action.kind = "file_create" THEN fs_create(s, path, pid, size)
             ELSE IF action.kind = "file_write" THEN fs_write(s, path, pid, size)
             ELSE IF action.kind = "file_read" THEN fs_read(s, path, pid)
             ELSE IF action.kind = "file_delete" THEN fs_delete(s, path, pid)
             ELSE [st |-> s, msg |-> <<"file_unknown", <<>>, <<>>>>]
    IN  Log(r.st, r.msg[1], r.msg[2], r.msg[3])

\* str.startswith on the action kinds a script can hold: the eleven kinds
\* the simulator names, and "sleep", "file_chmod" and "res_lock", which it
\* does not.
starts_with_file(kind) ==
    kind \in {"file_create", "file_write", "file_read", "file_delete", "file_chmod"}
starts_with_res(kind) == kind \in {"res_acquire", "res_release", "res_lock"}

\* Tail of _run_action: advance, then finish / count the quantum / preempt.
account(s, pid) ==
    LET s1 == [s EXCEPT !.process_pool[pid] = advance(@)]
    IN  IF remaining_actions(s1.process_pool[pid]) = 0
        THEN complete_process(s1, pid)
        ELSE LET s2 == [s1 EXCEPT !.process_pool[pid].current_quantum = @ + 1]
                 proc == s2.process_pool[pid]
             IN  IF proc.current_quantum >= queue_quantums[proc.queue_level + 1]
                 THEN preempt(s2, pid)
                 ELSE s2

run_action(s, pid) ==
    LET action == next_action(s.process_pool[pid])
    IN  IF action.kind = "None" THEN complete_process(s, pid)
        ELSE LET s0 == Log(s, "action", <<pid, s.process_pool[pid].pointer>>, <<>>)
             IN  IF action.kind = "cpu" THEN account(s0, pid)
                 ELSE IF action.kind = "io"
                 THEN block([s0 EXCEPT !.process_pool[pid] = advance(@)], pid,
                            OrInt(action.io_duration, 1))
                 ELSE IF action.kind = "mem"
                 THEN account(execute_memory(s0, pid, action), pid)
                 ELSE IF action.kind \in {"produce", "consume"}
                 THEN LET s1 == execute_pc_action(s0, pid, action)
                      IN  IF s1.process_pool[pid].state = "Blocked" THEN s1
                          ELSE account(s1, pid)
                 ELSE IF starts_with_file(action.kind)
                 THEN account(execute_file_action(s0, pid, action), pid)
                 ELSE IF starts_with_res(action.kind)
                 THEN LET s1 == execute_resource_action(s0, pid, action)
                      IN  IF s1.process_pool[pid].state = "Blocked" THEN s1
                          ELSE account(s1, pid)
                 ELSE account(Log(s0, "unknown_action", <<pid>>, <<action.kind>>), pid)

\* Mutant of arrive: an arrived process is enqueued but left in state New.
RECURSIVE arrive_stays_new(_, _)
arrive_stays_new(s, pids) ==
    IF pids = {} THEN s
    ELSE LET pid == CHOOSE p \in pids : \A q \in pids : p <= q
             s1 == Log([s EXCEPT !.process_pool[pid].queue_level = 0,
                                 !.ready_queues[1] = Append(@, pid)],
                       "arrived", <<pid>>, <<>>)
         IN  arrive_stays_new(s1, pids \ {pid})

\* Arrival scan of step() over list(process_pool.values()), in pid order
\* (the dict's insertion order). The scan changes nothing for a process that
\* fails its test, so it is run over the processes that pass it.
RECURSIVE arrive(_, _)
arrive(s, pids) ==
    IF pids = {} THEN s
    ELSE LET pid == CHOOSE p \in pids : \A q \in pids : p <= q
             s1 == Log([s EXCEPT !.process_pool[pid].state = "Ready",
                                 !.process_pool[pid].queue_level = 0,
                                 !.ready_queues[1] = Append(@, pid)],
                       "arrived", <<pid>>, <<>>)
         IN  arrive(s1, pids \ {pid})

arrivals(s) ==
    arrive(s, {pid \in DOMAIN s.process_pool :
                 /\ s.process_pool[pid].state = "New"
                 /\ s.process_pool[pid].arrival_time <= s.clock})

\* The state at the action phase of step(): after the clock tick, the
\* arrival scan, the wake pass and the dispatch.
before_action(s) ==
    LET s1 == Log([s EXCEPT !.clock = @ + 1], "tick", <<>>, <<>>)
        s2 == arrivals(s1)
    IN  dispatch_if_needed(handle_blocked(s2))

\* Mutant of step: a process that keeps the CPU executes a second action.
step_two_actions(s) ==
    LET s3 == before_action(s)
        s4 == IF s3.running # NoPid THEN run_action(s3, s3.running)
              ELSE Log(s3, "idle", <<>>, <<>>)
        s5 == IF s4.running # NoPid THEN run_action(s4, s4.running) ELSE s4
    IN  IF s5.clock % 4 = 0 THEN spawn_dynamic_job(s5) ELSE s5

\* Mutant of step: a job is spawned at every tick.
step_spawn_every_tick(s) ==
    LET s3 == before_action(s)
        s4 == IF s3.running # NoPid THEN run_action(s3, s3.running)
              ELSE Log(s3, "idle", <<>>, <<>>)
    IN  spawn_dynamic_job(s4)

step(s) ==
    LET s3 == before_action(s)
        s4 == IF s3.running # NoPid THEN run_action(s3, s3.running)
              ELSE Log(s3, "idle", <<>>, <<>>)
    IN  IF s4.clock % 4 = 0 THEN spawn_dynamic_job(s4) ELSE s4

----------------------------------------------------------------------------
(* The program: main.py constructs the simulator and calls reset(); the     *)
(* user then presses Step (or lets auto-run call it) and Reset in any order.*)

SetState(s) ==
    /\ clock' = s.clock
    /\ process_pool' = s.process_pool
    /\ ready_queues' = s.ready_queues
    /\ blocked' = s.blocked
    /\ finished' = s.finished
    /\ running' = s.running
    /\ frames' = s.frames
    /\ frame_table' = s.frame_table
    /\ replacement_queue' = s.replacement_queue
    /\ page_locations' = s.page_locations
    /\ last_access' = s.last_access
    /\ files' = s.files
    /\ event_log' = s.event_log
    /\ buffer_slots' = s.buffer_slots
    /\ buffer_in' = s.buffer_in
    /\ buffer_out' = s.buffer_out
    /\ buffer_count' = s.buffer_count
    /\ mutex_owner' = s.mutex_owner
    /\ shared_resources' = s.shared_resources
    /\ next_pid' = s.next_pid

InitState(s) ==
    /\ clock = s.clock
    /\ process_pool = s.process_pool
    /\ ready_queues = s.ready_queues
    /\ blocked = s.blocked
    /\ finished = s.finished
    /\ running = s.running
    /\ frames = s.frames
    /\ frame_table = s.frame_table
    /\ replacement_queue = s.replacement_queue
    /\ page_locations = s.page_locations
    /\ last_access = s.last_access
    /\ files = s.files
    /\ event_log = s.event_log
    /\ buffer_slots = s.buffer_slots
    /\ buffer_in = s.buffer_in
    /\ buffer_out = s.buffer_out
    /\ buffer_count = s.buffer_count
    /\ mutex_owner = s.mutex_owner
    /\ shared_resources = s.shared_resources
    /\ next_pid = s.next_pid

Init ==
    /\ InitState(reset(Constructed))
    /\ last_op = <<"reset">>
    /\ trace = <<>>

Step ==
    /\ clock < MaxClock
    /\ SetState(step(State))
    /\ last_op' = <<"step">>
    /\ UNCHANGED trace

Reset ==
    /\ SetState(reset(State))
    /\ last_op' = <<"reset">>
    /\ UNCHANGED trace

Next == Step \/ Reset

Spec == Init /\ [][Next]_vars

----------------------------------------------------------------------------
(* Unit driver of MemoryManager: a manager with a few frames and processes  *)
(* that call access_page directly. A process with a script issues its mem   *)
(* actions in order; a process without one accesses any page.               *)

MemProcess(pid, pages, script) ==
    [Process(pid, 0, script, pages) EXCEPT !.state = "Running"]

MemConfigs ==
    { [frames |-> 2, pool |-> <<MemProcess(1, 2, <<>>), MemProcess(2, 3, <<>>)>>],
      [frames |-> 3, pool |-> <<MemProcess(1, 2, <<>>), MemProcess(2, 3, <<>>)>>],
      [frames |-> 2, pool |-> <<MemProcess(1, 0, <<>>), MemProcess(2, 2, <<>>)>>],
      [frames |-> 8, pool |-> <<MemProcess(1, 10, [i \in 1..10 |-> Mem(i - 1)])>>] }

InitMem ==
    /\ \E cfg \in MemConfigs :
          InitState(memory_reset([Constructed EXCEPT !.process_pool = cfg.pool],
                                 cfg.frames))
    /\ last_op = <<"init">>
    /\ trace = <<>>

\* memory.access_page(process, page), with the returned tuple recorded.
CallAccessPage(pid, page) ==
    LET r == access_page(State, pid, page)
    IN  /\ SetState(r.st)
        /\ last_op' = <<"access_page">>
        /\ trace' = Append(trace, [pid |-> pid, page |-> page, fault |-> r.fault,
                                   frame |-> r.frame, evicted |-> r.evicted])

MemAccess ==
    \E pid \in DOMAIN process_pool, page \in 0..MaxPage :
        /\ process_pool[pid].actions = <<>>
        /\ Len(trace) < MaxAccesses
        /\ CallAccessPage(pid, page)

MemScripted ==
    \E pid \in DOMAIN process_pool :
        /\ Len(trace) < Len(process_pool[pid].actions)
        /\ CallAccessPage(pid, process_pool[pid].actions[Len(trace) + 1].page)

NextMem == MemAccess \/ MemScripted

SpecMem == InitMem /\ [][NextMem]_vars

----------------------------------------------------------------------------
(* Unit driver of the synchronisation engine: three arrived processes and   *)
(* the scheduler's own methods called one at a time. As in step(), an       *)
(* operation is executed by the process that _dispatch_if_needed() puts in  *)
(* the running slot; the wake pass is a call of its own. The driver runs    *)
(* one suite of operations per run and records every call in `trace`.       *)

SyncPool == [pid \in 1..3 |-> [Process(pid, 0, <<>>, 1) EXCEPT !.state = "Ready"]]

Suites ==
    [buffer |-> {"produce", "consume", "preempt", "wake"},
     mutex |-> {"with_mutex", "release_mutex", "produce", "preempt", "wake"},
     resource |-> {"res_acquire", "res_release", "io", "preempt", "wake"}]

\* The buffer as `n` produce operations of process `pid` leave it.
RECURSIVE prefill(_, _, _)
prefill(s, pid, n) ==
    IF n = 0 THEN s ELSE prefill(execute_pc_action(s, pid, Produce), pid, n - 1)

InitSync ==
    \E suite \in DOMAIN Suites, n \in {0, buffer_capacity} :
        /\ n > 0 => suite = "buffer"
        /\ InitState([prefill([Constructed EXCEPT !.process_pool = SyncPool], 1, n)
                         EXCEPT !.ready_queues[1] = <<1, 2, 3>>])
        /\ last_op = <<"suite", NoPid, suite>>
        /\ trace = <<<<"suite", NoPid, suite>>>>

\* The state in which an operation executes, and the process executing it.
Dispatched == dispatch_if_needed(State)
Actor == Dispatched.running

\* One direct call: the state it leaves and the record of the call.
Call(s, op, pid) ==
    /\ Len(trace) <= MaxCalls
    /\ op \in Suites[trace[1][3]]
    /\ SetState(s)
    /\ last_op' = <<"call", pid, op>>
    /\ trace' = Append(trace, <<"call", pid, op>>)

SyncPc ==
    /\ Actor # NoPid
    /\ \E action \in {Produce, Consume} :
          Call(execute_pc_action(Dispatched, Actor, action), action.kind, Actor)

SyncWithMutex ==
    /\ Actor # NoPid
    /\ Call(with_mutex(Dispatched, Actor).st, "with_mutex", Actor)

SyncReleaseMutex ==
    /\ Actor # NoPid
    /\ Call(release_mutex(Dispatched, Actor), "release_mutex", Actor)

SyncResource ==
    /\ Actor # NoPid
    /\ \E kind \in {"res_acquire", "res_release"} :
          Call(execute_resource_action(Dispatched, Actor, ResAct(kind, "GPU")),
               kind, Actor)

SyncIo ==
    /\ Actor # NoPid
    /\ Call(block(Dispatched, Actor, 1), "io", Actor)

SyncPreempt ==
    /\ Actor # NoPid
    /\ Call(preempt(Dispatched, Actor), "preempt", Actor)

SyncWake ==
    /\ blocked # <<>>
    /\ Call(handle_blocked(State), "wake", NoPid)

NextSync ==
    \/ SyncPc
    \/ SyncWithMutex
    \/ SyncReleaseMutex
    \/ SyncResource
    \/ SyncIo
    \/ SyncPreempt
    \/ SyncWake

SpecSync == InitSync /\ [][NextSync]_vars

----------------------------------------------------------------------------
(* The scheduler under other workloads: `templates` is replaced before      *)
(* reset(), then step() is called. Each workload makes a case happen that   *)
(* the default templates never reach: a full buffer, an empty buffer with   *)
(* two consumers, three processes contending for one tape drive, I/O        *)
(* durations 0, None, 2 and 3 next to a long CPU-bound process, and actions *)
(* of kinds the simulator does not name.                                    *)

Workloads ==
    << << Process(1, 0, <<Produce, Produce, Produce, Produce, Produce, Produce,
                          Produce>>, 3),
          Process(2, 9, <<Consume, Consume>>, 3) >>,
       << Process(1, 0, <<Consume, Cpu>>, 3),
          Process(2, 0, <<Consume>>, 3),
          Process(3, 3, <<Produce, Cpu, Cpu>>, 3) >>,
       << Process(1, 0, <<ResAct("res_acquire", "tape"), Io(3),
                          ResAct("res_release", "tape")>>, 3),
          Process(2, 0, <<ResAct("res_acquire", "tape"), Cpu,
                          ResAct("res_release", "tape")>>, 3),
          Process(3, 0, <<ResAct("res_acquire", "tape"),
                          ResAct("res_release", "tape")>>, 3) >>,
       << Process(1, 0, <<Cpu, Cpu, Cpu, Cpu, Cpu, Cpu, Cpu, Cpu, Cpu, Cpu>>, 3),
          Process(2, 0, <<Io(0), Cpu>>, 3),
          Process(3, 1, <<Io(2), Cpu, Io(NoneInt), Cpu>>, 3),
          Process(4, 2, <<>>, 3),
          Process(5, 7, <<Cpu, Cpu>>, 3) >>,
       << Process(1, 0, <<ProcessAction("sleep", NoneInt, "", NoneInt, 0, ""), Cpu,
                          ProcessAction("sleep", NoneInt, "", NoneInt, 0, ""),
                          ProcessAction("sleep", NoneInt, "", NoneInt, 0, "")>>, 3),
          Process(2, 0, <<FileAct("file_chmod", "/data/users", NoneInt), Cpu>>, 3),
          Process(3, 1, <<ResAct("res_lock", "GPU"), Cpu>>, 3) >> >>

InitLoad ==
    \E w \in DOMAIN Workloads :
        /\ InitState([reset(Constructed) EXCEPT !.process_pool = Workloads[w],
                                                !.next_pid = Len(Workloads[w]) + 1])
        /\ last_op = <<"load", w>>
        /\ trace = <<>>

StepLoad ==
    /\ clock < MaxTicks
    /\ SetState(step(State))
    /\ last_op' = <<"step">>
    /\ UNCHANGED trace

NextLoad == StepLoad

SpecLoad == InitLoad /\ [][NextLoad]_vars

----------------------------------------------------------------------------
(* The uninterrupted run: main.py constructs the simulator, calls reset()   *)
(* once, and the auto-run timer calls step() again and again.               *)

StepRun ==
    /\ clock < MaxRun
    /\ SetState(step(State))
    /\ last_op' = <<"step">>
    /\ UNCHANGED trace

NextRun == StepRun

SpecRun == Init /\ [][NextRun]_vars

----------------------------------------------------------------------------
(* Helpers of the properties *)

CountIn(q, pid) == Cardinality({i \in DOMAIN q : q[i] = pid})

\* Number of places a pid occupies among the running slot, the three ready
\* queues, the blocked list and the finished list.
Occurrences(pid) ==
    (IF running = pid THEN 1 ELSE 0)
    + CountIn(ready_queues[1], pid) + CountIn(ready_queues[2], pid)
    + CountIn(ready_queues[3], pid) + CountIn(blocked, pid) + CountIn(finished, pid)

BucketTotal ==
    (IF running # NoPid THEN 1 ELSE 0)
    + Len(ready_queues[1]) + Len(ready_queues[2]) + Len(ready_queues[3])
    + Len(blocked) + Len(finished)

NewPids == {pid \in DOMAIN process_pool : process_pool[pid].state = "New"}

\* Log lines of page faults that replaced a page.
Evictions ==
    {i \in DOMAIN event_log : event_log[i][2] = "page_fault" /\ Len(event_log[i][3]) = 5}

----------------------------------------------------------------------------
(* C1 *)

\* C1 as stated: after every step() every pid of the pool is in exactly one
\* bucket and the bucket sizes add up to the number of processes created.
C1_AllPooledInOneBucket ==
    last_op = <<"step">> =>
        /\ \A pid \in DOMAIN process_pool : Occurrences(pid) = 1
        /\ BucketTotal = Cardinality(DOMAIN process_pool)

\* C1 (amended): a template process whose arrival time has not come (state
\* New) is in the pool but in no bucket; every other pid of the pool is in
\* exactly one bucket, and the bucket sizes add up to the number of processes
\* created minus those still New.
C1_Conservation ==
    /\ \A pid \in DOMAIN process_pool :
          Occurrences(pid) = (IF process_pool[pid].state = "New" THEN 0 ELSE 1)
    /\ BucketTotal = Cardinality(DOMAIN process_pool) - Cardinality(NewPids)
    /\ Cardinality(DOMAIN process_pool) = next_pid - 1

\* A step has filled every kind of bucket, with spawned jobs in the pool.
C1_Witness ==
    /\ last_op = <<"step">>
    /\ running # NoPid
    /\ \A l \in 1..3 : ready_queues[l] # <<>>
    /\ blocked # <<>>
    /\ finished # <<>>
    /\ next_pid > Len(default_templates) + 1

----------------------------------------------------------------------------
(* C2 *)

\* C2: after reset() the simulator is in its initial configuration,
\* including the shared resources' available counts (1, 1, 2).
C2_ResetRestoresInitial ==
    last_op = <<"reset">> =>
        /\ clock = 0
        /\ DOMAIN process_pool = 1..6
        /\ \A pid \in DOMAIN process_pool :
              /\ process_pool[pid].state = "New"
              /\ process_pool[pid].pointer = 0
              /\ process_pool[pid].page_table = EmptyMap
        /\ ready_queues = <<<<>>, <<>>, <<>>>>
        /\ blocked = <<>>
        /\ finished = <<>>
        /\ running = NoPid
        /\ \A f \in DOMAIN frame_table : frame_table[f] = <<>>
        /\ files = EmptyMap
        /\ event_log = <<>>
        /\ buffer_count = 0 /\ buffer_in = 0 /\ buffer_out = 0
        /\ \A i \in DOMAIN buffer_slots : buffer_slots[i] = NoPid
        /\ mutex_owner = NoPid
        /\ shared_resources["tape"] = 1
        /\ shared_resources["GPU"] = 1
        /\ shared_resources["printer"] = 2

----------------------------------------------------------------------------
(* C3 *)

\* C3: the frame table, the reverse index and the page tables agree: frame f
\* holds (pid, page) iff page_locations maps (pid, page) to f iff pid's page
\* table maps page to f.
C3_MemoryConsistent ==
    /\ \A f \in 0..(frames - 1) :
          frame_table[f + 1] # <<>> =>
              LET key == frame_table[f + 1]
              IN  /\ key \in DOMAIN page_locations
                  /\ page_locations[key] = f
                  /\ key[1] \in DOMAIN process_pool
                  /\ key[2] \in DOMAIN process_pool[key[1]].page_table
                  /\ process_pool[key[1]].page_table[key[2]] = f
    /\ \A key \in DOMAIN page_locations :
          /\ page_locations[key] \in 0..(frames - 1)
          /\ frame_table[page_locations[key] + 1] = key
    /\ \A pid \in DOMAIN process_pool :
          \A page \in DOMAIN process_pool[pid].page_table :
              LET f == process_pool[pid].page_table[page]
              IN  f \in 0..(frames - 1) /\ frame_table[f + 1] = <<pid, page>>

\* A fault has replaced a page whose owner had already finished.
C3_Witness ==
    \E i \in Evictions :
        /\ process_pool[event_log[i][3][4]].state = "Finished"
        /\ process_pool[event_log[i][3][4]].page_table = EmptyMap

----------------------------------------------------------------------------
(* C4 *)

\* The pages installed by faults and the pages evicted, in call order.
Faults == SelectSeq(trace, LAMBDA r : r.fault)
Installed ==
    [i \in DOMAIN Faults |->
        <<Faults[i].pid,
          Faults[i].page % Max(process_pool[Faults[i].pid].memory_pages, 1)>>]
EvictedSeq ==
    LET ev == SelectSeq(trace, LAMBDA r : r.evicted # <<>>)
    IN  [i \in DOMAIN ev |-> ev[i].evicted]

\* C4: FIFO replacement. Whatever the calls, the k-th page evicted is the
\* k-th page installed by a fault, an eviction happens only once every frame
\* is in use, and a hit (fault = FALSE) evicts nothing, so hits never change
\* the eviction order. With 8 frames and one process of 10 pages accessing
\* pages 0..9 in order, every access faults, accesses 1..8 evict nothing and
\* accesses 9 and 10 evict pages 0 and 1.
C4_FifoReplacement ==
    /\ Len(EvictedSeq) <= Len(Installed)
    /\ EvictedSeq = SubSeq(Installed, 1, Len(EvictedSeq))
    /\ Len(EvictedSeq) = Max(Len(Installed) - frames, 0)
    /\ \A i \in DOMAIN trace : ~trace[i].fault => trace[i].evicted = <<>>
    /\ (frames = 8) =>
          \A i \in DOMAIN trace :
              /\ trace[i].fault
              /\ i <= 8 => trace[i].evicted = <<>>
              /\ i = 9 => trace[i].evicted = <<trace[i].pid, 0>>
              /\ i = 10 => trace[i].evicted = <<trace[i].pid, 1>>

\* The ten sequential accesses of the 8-frame scenario have been made.
C4_Witness ==
    /\ frames = 8
    /\ Len(trace) = 10
    /\ Len(EvictedSeq) = 2

----------------------------------------------------------------------------
(* C5 *)

\* The transition is the direct call of operation `op`; its process is
\* last_op'[2].
Called(op) == last_op'[1] = "call" /\ last_op'[3] = op

BufferUnchanged ==
    /\ buffer_count' = buffer_count
    /\ buffer_in' = buffer_in
    /\ buffer_out' = buffer_out
    /\ buffer_slots' = buffer_slots

\* After the transition, pid is Blocked on `reason`, in the blocked list and
\* out of the running slot.
BlockedOn(pid, reason) ==
    /\ process_pool'[pid].state = "Blocked"
    /\ process_pool'[pid].wait_reason = reason
    /\ CountIn(blocked', pid) = 1
    /\ running' = NoPid

\* The mutex is free for pid: unheld, or held by pid itself.
MutexFreeFor(pid) == mutex_owner = NoPid \/ mutex_owner = pid

ProduceOnFull ==
    (Called("produce") /\ buffer_count = buffer_capacity) =>
        /\ BufferUnchanged
        /\ BlockedOn(last_op'[2],
                     IF MutexFreeFor(last_op'[2]) THEN WAIT_SLOT ELSE WAIT_MUTEX)

ConsumeOnEmpty ==
    (Called("consume") /\ buffer_count = 0) =>
        /\ BufferUnchanged
        /\ BlockedOn(last_op'[2],
                     IF MutexFreeFor(last_op'[2]) THEN WAIT_PRODUCT ELSE WAIT_MUTEX)

\* C5: 0 <= buffer_count <= buffer_capacity in every state; a produce on a
\* full buffer and a consume on an empty buffer change no buffer state and
\* block the process.
C5_BufferBounds ==
    /\ [](buffer_count >= 0 /\ buffer_count <= buffer_capacity)
    /\ [][ProduceOnFull /\ ConsumeOnEmpty]_vars

\* A producer has just blocked on the full buffer, after a consume and a
\* produce that went through.
C5_Witness ==
    /\ last_op[1] = "call" /\ last_op[3] = "produce"
    /\ buffer_count = buffer_capacity
    /\ process_pool[last_op[2]].wait_reason = WAIT_SLOT
    /\ \E i \in DOMAIN event_log : event_log[i][2] = "consumed"

----------------------------------------------------------------------------
(* C6 *)

AcquireRule ==
    Called("with_mutex") =>
        LET pid == last_op'[2]
        IN  IF MutexFreeFor(pid)
            THEN /\ mutex_owner' = pid
                 /\ process_pool'[pid].state = "Running"
                 /\ running' = pid
            ELSE /\ mutex_owner' = mutex_owner
                 /\ BlockedOn(pid, WAIT_MUTEX)

ContendedBufferOperation ==
    ((Called("produce") \/ Called("consume")) /\ ~MutexFreeFor(last_op'[2])) =>
        /\ mutex_owner' = mutex_owner
        /\ BufferUnchanged
        /\ BlockedOn(last_op'[2], WAIT_MUTEX)

ReleaseRule ==
    Called("release_mutex") =>
        mutex_owner' = (IF mutex_owner = last_op'[2] THEN NoPid ELSE mutex_owner)

\* C6: the mutex has at most one holder, a process of the pool. An acquire
\* by pid succeeds iff the mutex is unheld or held by pid; otherwise the
\* holder is unchanged and pid blocks on the mutex, and a produce or consume
\* attempted by it does not touch the buffer. A release by pid clears the
\* ownership iff pid is the holder.
C6_MutexExclusive ==
    /\ [](mutex_owner \in {NoPid} \cup DOMAIN process_pool)
    /\ [][AcquireRule /\ ContendedBufferOperation /\ ReleaseRule]_vars

\* A second process has blocked on the mutex in a buffer operation while
\* the first still holds it, after a release attempt by a non-holder.
C6_Witness ==
    /\ mutex_owner # NoPid
    /\ last_op[1] = "call" /\ last_op[3] = "produce"
    /\ last_op[2] # mutex_owner
    /\ process_pool[last_op[2]].wait_reason = WAIT_MUTEX
    /\ \E i \in DOMAIN trace :
          trace[i][3] = "release_mutex" /\ trace[i][2] # mutex_owner

----------------------------------------------------------------------------
(* C7 *)

\* The time slice of a level, as the claim states it.
QuantumOf(level) == CASE level = 0 -> 1 [] level = 1 -> 2 [] level = 2 -> 4

Last(q) == q[Len(q)]

\* In a step() transition: the process in the running slot after the
\* dispatch phase executes an action (its cursor advances) that neither
\* finishes nor blocks it, and its quantum count reaches its level's quantum.
QuantumExhausted(mid) ==
    LET pid == mid.running
        proc == mid.process_pool[pid]
    IN  /\ process_pool'[pid].pointer = proc.pointer + 1
        /\ process_pool'[pid].state \notin {"Finished", "Blocked"}
        /\ proc.current_quantum + 1 >= QuantumOf(proc.queue_level)

Demoted(mid) ==
    LET pid == mid.running
        level == Min(mid.process_pool[pid].queue_level + 1, 2)
    IN  /\ process_pool'[pid].state = "Ready"
        /\ process_pool'[pid].current_quantum = 0
        /\ process_pool'[pid].queue_level = level
        /\ ready_queues'[level + 1] # <<>>
        /\ Last(ready_queues'[level + 1]) = pid
        /\ CountIn(ready_queues'[1] \o ready_queues'[2] \o ready_queues'[3], pid) = 1
        /\ running' = NoPid

\* C7: a running process whose action neither finishes nor blocks it and
\* brings current_quantum to queue_quantums[level] (1, 2, 4) is, within the
\* same tick, at the tail of ready queue min(level + 1, 2), Ready with
\* current_quantum = 0, and the running slot is empty after the tick.
C7_QuantumDemotion ==
    [][(last_op' = <<"step">> /\ before_action(State).running # NoPid
        /\ QuantumExhausted(before_action(State)))
       => Demoted(before_action(State))]_vars

\* In this tick a process dispatched from queue 2 used up its 4 ticks and
\* went back to the tail of queue 2.
C7_Witness ==
    /\ last_op = <<"step">>
    /\ running = NoPid
    /\ ready_queues[3] # <<>>
    /\ \E i \in DOMAIN event_log :
          /\ event_log[i] = <<clock, "preempted", <<Last(ready_queues[3]), 2>>, <<>>>>
          /\ \E j \in 1..i :
                event_log[j][2] = "dispatch"
                /\ event_log[j][3] = <<Last(ready_queues[3]), 2, 4>>

----------------------------------------------------------------------------
(* C8 *)

InSomeQueue(pid) ==
    CountIn(ready_queues[1] \o ready_queues[2] \o ready_queues[3], pid) > 0

FinishedOnce ==
    \A pid \in DOMAIN process_pool :
        /\ CountIn(finished, pid) = (IF process_pool[pid].state = "Finished" THEN 1 ELSE 0)
        /\ process_pool[pid].state = "Finished" =>
              /\ process_pool[pid].pointer = Len(process_pool[pid].actions)
              /\ running # pid
              /\ ~InSomeQueue(pid)
              /\ CountIn(blocked, pid) = 0

FinishedStays ==
    last_op' = <<"step">> =>
        \A pid \in DOMAIN process_pool :
            process_pool[pid].state = "Finished" =>
                /\ process_pool'[pid].state = "Finished"
                /\ process_pool'[pid].pointer = process_pool[pid].pointer
                /\ CountIn(finished', pid) = 1

\* C8: a process is in the finished list exactly once iff its state is
\* Finished, and then its cursor is at the end of its action list and it is
\* in no other bucket; a step() leaves a Finished process Finished, with the
\* same cursor and still once in the finished list.
C8_FinishedTerminal == []FinishedOnce /\ [][FinishedStays]_vars

\* Template and spawned processes have finished, ticks ago, while others
\* are still blocked and ready.
C8_Witness ==
    /\ last_op = <<"step">>
    /\ Len(finished) >= 3
    /\ \E i \in DOMAIN finished : finished[i] <= Len(default_templates)
    /\ \E i \in DOMAIN finished : finished[i] > Len(default_templates)
    /\ \E i \in DOMAIN event_log :
          event_log[i] = <<event_log[i][1], "completed", <<finished[1]>>, <<>>>>
          /\ event_log[i][1] < clock - 2
    /\ blocked # <<>>

----------------------------------------------------------------------------
(* C9 *)

\* The state that reset() followed by n step() calls produces when the
\* simulator has just been constructed.
RECURSIVE Replay(_)
Replay(n) ==
    IF n = 0 THEN reset(Constructed)
    ELSE CHOOSE t \in {step(prev) : prev \in {Replay(n - 1)}} : TRUE

\* C9: the state and log reached by reset() followed by n step() calls are
\* the same in every run, whatever was executed before that reset().
C9_ReplayReproduces == State = Replay(clock)

----------------------------------------------------------------------------
(* C10 *)

\* The wake predicate of a wait reason, as the claim states it.
PredicateHolds(reason) ==
    CASE reason = <<"WaitSlot">> -> buffer_count < 5
      [] reason = <<"WaitProduct">> -> buffer_count > 0
      [] reason = <<"WaitMutex">> -> mutex_owner = NoPid
      [] Len(reason) = 2 -> shared_resources[reason[2]] > 0

WaitersSettled ==
    \A i \in DOMAIN blocked :
        LET pid == blocked[i]
            reason == process_pool[pid].wait_reason
        IN  reason # <<>> =>
                IF PredicateHolds(reason)
                THEN /\ process_pool'[pid] =
                           [process_pool[pid] EXCEPT !.state = "Ready",
                                                     !.queue_level = 0,
                                                     !.wait_reason = <<>>]
                     /\ CountIn(blocked', pid) = 0
                     /\ CountIn(ready_queues'[1], pid) = 1
                ELSE /\ process_pool'[pid] = process_pool[pid]
                     /\ CountIn(blocked', pid) = 1
                     /\ CountIn(ready_queues'[1], pid) = 0

WokenInOrder ==
    /\ ready_queues'[1] = ready_queues[1] \o
          SelectSeq(blocked, LAMBDA p : process_pool'[p].state = "Ready")
    /\ blocked' = SelectSeq(blocked, LAMBDA p : process_pool'[p].state = "Blocked")
    /\ ready_queues'[2] = ready_queues[2]
    /\ ready_queues'[3] = ready_queues[3]

NothingReserved ==
    /\ buffer_count' = buffer_count
    /\ buffer_slots' = buffer_slots
    /\ mutex_owner' = mutex_owner
    /\ shared_resources' = shared_resources

\* C10: a wake pass moves a Blocked process that has a wait reason to the
\* tail of ready queue 0 (Ready, queue_level 0, reason cleared) exactly when
\* its predicate holds at the start of the pass, leaves every other such
\* process Blocked and unchanged, reserves nothing, and appends the woken
\* processes in blocked-list order.
C10_WakePass ==
    [][Called("wake") => WaitersSettled /\ WokenInOrder /\ NothingReserved]_vars

\* A wake pass has just woken two waiters on the same freed condition.
C10_Witness ==
    /\ last_op = <<"call", NoPid, "wake">>
    /\ Len(event_log) >= 2
    /\ event_log[Len(event_log)][2] = "woke_reason"
    /\ event_log[Len(event_log) - 1][2] = "woke_reason"
    /\ event_log[Len(event_log)][3] # event_log[Len(event_log) - 1][3]
    /\ Len(ready_queues[1]) >= 2
    /\ event_log[Len(event_log)][3] = <<Last(ready_queues[1])>>

----------------------------------------------------------------------------
(* C11 *)

IsStep == last_op' = <<"step">>

\* The log lines written during the current tick.
LoggedNow(tag, ints, strs) ==
    \E i \in DOMAIN event_log : event_log[i] = <<clock, tag, ints, strs>>

WokeInThisPass(pid) ==
    \E i \in DOMAIN event_log' :
        /\ event_log'[i][1] = clock'
        /\ event_log'[i][2] \in {"woke_reason", "woke_io"}
        /\ event_log'[i][3] = <<pid>>

\* What the scheduler keeps about a process (its page table is memory state,
\* which another process's page fault may change).
Scheduling(proc) ==
    <<proc.state, proc.wait_reason, proc.queue_level, proc.pointer,
      proc.current_quantum, proc.io_timer>>

\* A waiter whose predicate does not hold when the tick begins is still
\* Blocked, untouched, when the tick ends, whatever the tick's action did.
NoWakeOnRelease ==
    \A i \in DOMAIN blocked :
        LET pid == blocked[i]
            reason == process_pool[pid].wait_reason
        IN  (reason # <<>> /\ ~PredicateHolds(reason)) =>
                /\ Scheduling(process_pool'[pid]) = Scheduling(process_pool[pid])
                /\ CountIn(blocked', pid) = 1
                /\ ~WokeInThisPass(pid)

\* A waiter whose predicate holds when the tick begins is woken by the
\* tick's wake pass, at level 0.
WakeOnNextPass ==
    \A i \in DOMAIN blocked :
        LET pid == blocked[i]
            reason == process_pool[pid].wait_reason
        IN  (reason # <<>> /\ PredicateHolds(reason)) =>
                \E j \in DOMAIN event_log' :
                    event_log'[j] = <<clock', "woke_reason", <<pid>>, reason>>

\* A pid of the blocked list that is no longer Blocked was woken by the pass.
LeavesOnlyByWake ==
    \A i \in DOMAIN blocked :
        (CountIn(blocked', blocked[i]) = 0 \/ process_pool'[blocked[i]].state # "Blocked")
            => WokeInThisPass(blocked[i])

\* C11: a release (or produce/consume) that makes a waiter's predicate true
\* in tick t leaves the waiter Blocked at the end of tick t; the waiter is
\* made Ready by the wake pass of tick t+1; a process leaves the blocked
\* list only in a wake pass.
C11_NoSignalOnRelease ==
    [][IsStep => NoWakeOnRelease /\ WakeOnNextPass /\ LeavesOnlyByWake]_vars

\* The tick that just ended released a resource a Blocked process waits for.
C11_Witness ==
    /\ last_op = <<"step">>
    /\ \E i \in DOMAIN blocked :
          LET reason == process_pool[blocked[i]].wait_reason
          IN  /\ Len(reason) = 2
              /\ PredicateHolds(reason)
              /\ \E pid \in DOMAIN process_pool :
                    LoggedNow("released", <<pid, 1>>, <<reason[2]>>)

----------------------------------------------------------------------------
(* C12 *)

\* The process at the action phase of this step() and the action it attempts.
ActionPhase == before_action(State)
Runner == ActionPhase.running
Attempted == next_action(ActionPhase.process_pool[Runner])

\* The wait reason that matches a failed attempt, as the claim states it.
FailedReason ==
    CASE Attempted.kind = "produce" /\ buffer_count >= 5 -> <<"WaitSlot">>
      [] Attempted.kind = "consume" /\ buffer_count <= 0 -> <<"WaitProduct">>
      [] Attempted.kind = "res_acquire" /\ shared_resources[Attempted.resource] <= 0
            -> <<"WaitResource", Attempted.resource>>
      [] OTHER -> <<>>

MemoryUnchanged ==
    /\ frames' = frames
    /\ frame_table' = frame_table
    /\ replacement_queue' = replacement_queue
    /\ page_locations' = page_locations
    /\ last_access' = last_access
    /\ \A pid \in DOMAIN process_pool :
          process_pool'[pid].page_table = process_pool[pid].page_table

FailedAttemptIsAtomic ==
    (Runner # NoPid /\ FailedReason # <<>>) =>
        /\ BufferUnchanged
        /\ mutex_owner' = mutex_owner
        /\ shared_resources' = shared_resources
        /\ MemoryUnchanged
        /\ files' = files
        /\ process_pool'[Runner].pointer = process_pool[Runner].pointer
        /\ BlockedOn(Runner, FailedReason)
        /\ Last(blocked') = Runner

\* A process that was Blocked with a wait reason and is dispatched in this
\* tick executes the action at the cursor it blocked at.
FailedAttemptIsRetried ==
    (Runner # NoPid /\ process_pool[Runner].state = "Blocked"
     /\ process_pool[Runner].wait_reason # <<>>) =>
        \E i \in DOMAIN event_log' :
            event_log'[i] = <<clock', "action", <<Runner, process_pool[Runner].pointer>>, <<>>>>

CursorKeptWhileWaiting ==
    \A pid \in DOMAIN process_pool :
        pid # Runner => process_pool'[pid].pointer = process_pool[pid].pointer

\* C12: a produce on a full buffer, a consume on an empty buffer or a
\* res_acquire of an exhausted resource changes neither the buffer, the
\* mutex, the resource counts, the memory state nor the cursor; the process
\* only moves from Running to Blocked with the matching wait reason, and the
\* same action is attempted when it is dispatched again.
C12_FailedActionAtomic ==
    [][IsStep => FailedAttemptIsAtomic /\ FailedAttemptIsRetried
                 /\ CursorKeptWhileWaiting]_vars

\* A process that was woken earlier has retried its action in this tick and
\* has failed again.
C12_Witness ==
    /\ last_op = <<"step">>
    /\ blocked # <<>>
    /\ process_pool[Last(blocked)].wait_reason # <<>>
    /\ LoggedNow("blocked_reason", <<Last(blocked)>>, process_pool[Last(blocked)].wait_reason)
    /\ \E i \in DOMAIN event_log :
          /\ event_log[i][2] = "woke_reason"
          /\ event_log[i][3] = <<Last(blocked)>>
          /\ event_log[i][4] = process_pool[Last(blocked)].wait_reason

----------------------------------------------------------------------------
(* C13 *)

ResourcesUnchanged == shared_resources' = shared_resources

\* The kind of the action executed in this step ("None": no action).
RunKind == IF Runner = NoPid THEN "None" ELSE Attempted.kind

\* The shared state an action kind may touch, as the claim's kinds name it.
Untouched ==
    /\ RunKind \notin {"produce", "consume"} => BufferUnchanged
    /\ mutex_owner' = mutex_owner
    /\ RunKind \notin {"res_acquire", "res_release"} => ResourcesUnchanged
    /\ RunKind # "mem" => MemoryUnchanged
    /\ RunKind \notin {"file_create", "file_write", "file_read", "file_delete"}
          => files' = files

OneCursorMoves ==
    \A pid \in DOMAIN process_pool :
        /\ process_pool'[pid].pointer \in
              {process_pool[pid].pointer, process_pool[pid].pointer + 1}
        /\ process_pool'[pid].pointer # process_pool[pid].pointer => pid = Runner
        /\ process_pool'[pid].actions = process_pool[pid].actions

\* C13: in a step() at most one cursor changes, by exactly 1, and it is the
\* cursor of the process in the running slot after the dispatch phase; all
\* other cursors, and the shared state the action's kind does not touch,
\* are unchanged.
C13_OneActionPerTick == [][IsStep => OneCursorMoves /\ Untouched]_vars

\* One process has executed an action in this tick while others sit in the
\* ready queues and in the blocked list.
C13_Witness ==
    /\ last_op = <<"step">>
    /\ blocked # <<>>
    /\ ready_queues[1] # <<>>
    /\ ready_queues[2] # <<>>
    /\ \E pid \in DOMAIN process_pool :
          /\ process_pool[pid].pointer > 0
          /\ LoggedNow("action", <<pid, process_pool[pid].pointer - 1>>, <<>>)

----------------------------------------------------------------------------
(* C14 *)

ResourceNames == {"tape", "GPU", "printer"}

CountsNonNegative == \A r \in ResourceNames : shared_resources[r] >= 0

AcquireTakesOne ==
    (Runner # NoPid /\ Attempted.kind = "res_acquire") =>
        LET r == Attempted.resource
        IN  IF shared_resources[r] > 0
            THEN /\ shared_resources' = [shared_resources EXCEPT ![r] = @ - 1]
                 /\ process_pool'[Runner].state # "Blocked"
                 /\ process_pool'[Runner].pointer = process_pool[Runner].pointer + 1
            ELSE /\ ResourcesUnchanged
                 /\ BlockedOn(Runner, <<"WaitResource", r>>)

\* C14: every resource count is >= 0 in every reachable state; res_acquire
\* takes exactly one unit when the count is positive and otherwise blocks
\* without changing any count, also for waiters woken together that retry
\* one after another.
C14_ResourcesNonNegative == []CountsNonNegative /\ [][IsStep => AcquireTakesOne]_vars

\* Two waiters of one resource were woken in the same pass; one of them then
\* took the last unit and the other has just retried and blocked again.
C14_Witness ==
    /\ last_op = <<"step">>
    /\ blocked # <<>>
    /\ Len(process_pool[Last(blocked)].wait_reason) = 2
    /\ LoggedNow("blocked_reason", <<Last(blocked)>>, process_pool[Last(blocked)].wait_reason)
    /\ LET pid == Last(blocked)
           reason == process_pool[pid].wait_reason
       IN  \E i \in DOMAIN event_log :
             /\ event_log[i][2] = "woke_reason"
             /\ event_log[i][3] = <<pid>>
             /\ event_log[i][4] = reason
             /\ \E k \in i..Len(event_log) :
                   /\ event_log[k][2] = "acquired"
                   /\ event_log[k][4] = <<reason[2]>>
                   /\ event_log[k][3][2] = 0
                   /\ event_log[k][3][1] # pid
                   /\ \E j \in DOMAIN event_log :
                         event_log[j] = <<event_log[i][1], "woke_reason",
                                          <<event_log[k][3][1]>>, reason>>

----------------------------------------------------------------------------
(* C15 *)

\* The duration an io action blocks for: 0 and None count as 1.
IoDuration(action) ==
    IF action.io_duration = 0 \/ action.io_duration = NoneInt THEN 1
    ELSE action.io_duration

IoBlocks ==
    (Runner # NoPid /\ Attempted.kind = "io") =>
        /\ process_pool'[Runner].pointer = process_pool[Runner].pointer + 1
        /\ process_pool'[Runner].state = "Blocked"
        /\ process_pool'[Runner].io_timer = IoDuration(Attempted)
        /\ process_pool'[Runner].wait_reason = <<>>
        /\ Last(blocked') = Runner
        /\ running' = NoPid

\* A process blocked on I/O with more than one tick to go stays Blocked; with
\* one tick to go it is woken by this tick's wake pass, at level 0.
IoCountdown ==
    \A i \in DOMAIN blocked :
        LET pid == blocked[i]
            proc == process_pool[pid]
        IN  proc.wait_reason = <<>> =>
                IF proc.io_timer > 1
                THEN /\ process_pool'[pid] =
                           [proc EXCEPT !.io_timer = @ - 1,
                                        !.page_table = process_pool'[pid].page_table]
                     /\ CountIn(blocked', pid) = 1
                     /\ ~WokeInThisPass(pid)
                ELSE /\ \E j \in DOMAIN event_log' :
                           event_log'[j] = <<clock', "woke_io", <<pid>>, <<>>>>
                     /\ IF pid = Runner
                        THEN \E j \in DOMAIN event_log' :
                                event_log'[j] = <<clock', "dispatch", <<pid, 0, 1>>, <<>>>>
                        ELSE /\ process_pool'[pid].state = "Ready"
                             /\ process_pool'[pid].queue_level = 0
                             /\ CountIn(ready_queues'[1], pid) = 1

\* Every I/O wake-up comes exactly d ticks after the io action that blocked
\* the process for d ticks.
WokenOnTime ==
    \A j \in DOMAIN event_log :
        event_log[j][2] = "woke_io" =>
            \E i \in 1..j :
                /\ event_log[i][2] = "blocked_io"
                /\ event_log[i][3][1] = event_log[j][3][1]
                /\ event_log[i][3][2] >= 1
                /\ event_log[i][1] + event_log[i][3][2] = event_log[j][1]
                /\ \A k \in (i + 1)..(j - 1) :
                      ~(event_log[k][2] \in {"blocked_io", "woke_io"}
                        /\ event_log[k][3][1] = event_log[j][3][1])

\* No io action of any process is logged as executed twice.
IoExecutedOnce ==
    \A i \in DOMAIN event_log :
        (event_log[i][2] = "action"
         /\ process_pool[event_log[i][3][1]].actions[event_log[i][3][2] + 1].kind = "io")
            => \A j \in (i + 1)..Len(event_log) :
                   ~(event_log[j][2] = "action" /\ event_log[j][3] = event_log[i][3])

\* C15: an io action of duration d >= 1 (0 and None count as 1) advances the
\* cursor, blocks the process with io_timer = d, keeps it Blocked through
\* ticks t+1 .. t+d-1, and the wake pass of tick t+d makes it Ready at level
\* 0; the io action is not executed again.
C15_IoCountdown ==
    /\ [](WokenOnTime /\ IoExecutedOnce)
    /\ [][IsStep => IoBlocks /\ IoCountdown]_vars

\* A process that blocked for 3 ticks has just been woken, 3 ticks later.
C15_Witness ==
    /\ last_op = <<"step">>
    /\ clock > 3
    /\ \E pid \in DOMAIN process_pool :
          /\ LoggedNow("woke_io", <<pid>>, <<>>)
          /\ \E i \in DOMAIN event_log :
                event_log[i] = <<clock - 3, "blocked_io", <<pid, 3>>, <<>>>>

----------------------------------------------------------------------------
(* C16 *)

Pids == DOMAIN process_pool

Spawned == {pid \in Pids : pid > Len(default_templates)}

PidsUnique ==
    /\ Pids = 1..(next_pid - 1)
    /\ \A pid \in Pids : process_pool[pid].pid = pid
    /\ \A p, q \in Spawned :
          p < q => process_pool[p].arrival_time < process_pool[q].arrival_time
    /\ \A pid \in Spawned :
          /\ process_pool[pid].arrival_time % 4 = 0
          /\ process_pool[pid].state # "New"
          /\ Occurrences(pid) = 1

SpawnOnFourth ==
    IF clock' % 4 = 0
    THEN LET new == next_pid
         IN  /\ \A pid \in Pids : new > pid
             /\ DOMAIN process_pool' = Pids \cup {new}
             /\ next_pid' = new + 1
             /\ process_pool'[new].state = "Ready"
             /\ process_pool'[new].queue_level = 0
             /\ process_pool'[new].pointer = 0
             /\ process_pool'[new].arrival_time = clock'
             /\ Last(ready_queues'[1]) = new
             /\ CountIn(ready_queues'[1] \o ready_queues'[2] \o ready_queues'[3]
                        \o blocked' \o finished', new) = 1
             /\ running' # new
             /\ Last(event_log') = <<clock', "spawned", <<new>>, <<>>>>
             /\ \A j \in DOMAIN event_log' :
                   event_log'[j][2] \in {"action", "dispatch", "arrived"}
                      => event_log'[j][3][1] # new
    ELSE /\ DOMAIN process_pool' = Pids
         /\ next_pid' = next_pid

\* C16: a step() whose clock is divisible by 4 creates exactly one process,
\* with a pid above every pid in the pool, Ready at level 0, at the tail of
\* ready queue 0 after the tick's action, never enqueued again by the
\* arrival scan; any other step() creates none; pids are unique and
\* increase in creation order.
C16_DynamicSpawn == []PidsUnique /\ [][IsStep => SpawnOnFourth]_vars

\* A job has just been spawned behind processes that were already waiting
\* in ready queue 0, while earlier spawned jobs have run.
C16_Witness ==
    /\ last_op = <<"step">>
    /\ clock % 4 = 0
    /\ Len(ready_queues[1]) >= 2
    /\ Last(ready_queues[1]) = next_pid - 1
    /\ LoggedNow("spawned", <<next_pid - 1>>, <<>>)
    /\ \E pid \in Spawned : process_pool[pid].state = "Finished"

----------------------------------------------------------------------------
(* C17 *)

LevelInRange == \A pid \in Pids : process_pool[pid].queue_level \in {0, 1, 2}

LoggedInStep(tag, ints) ==
    \E j \in DOMAIN event_log' : event_log'[j] = <<clock', tag, ints, <<>>>>

PreemptedInStep(pid) ==
    \E level \in 0..2 : LoggedInStep("preempted", <<pid, level>>)

\* The three changes of level the claim allows across one step().
LevelStep(pid) ==
    LET old == process_pool[pid].queue_level
        new == process_pool'[pid].queue_level
    IN  \/ new = old
        \/ new = old + 1 /\ new <= 2 /\ PreemptedInStep(pid)
        \/ new = 0 /\ process_pool[pid].state = "Blocked" /\ WokeInThisPass(pid)

\* A woken process is at level 0: in ready queue 0, or dispatched from it.
WakeToLevelZero ==
    \A pid \in Pids :
        (process_pool[pid].state = "Blocked" /\ WokeInThisPass(pid)) =>
            \/ process_pool'[pid].state = "Ready"
               /\ process_pool'[pid].queue_level = 0
               /\ CountIn(ready_queues'[1], pid) = 1
            \/ LoggedInStep("dispatch", <<pid, 0, 1>>)

\* C17 as stated: queue_level is always in {0, 1, 2}; across a step() it
\* stays the same, increases by exactly 1 (only on preemption, never beyond
\* 2) or becomes 0 (only on a wake); every wake puts the process at level 0.
C17_LevelDiscipline ==
    /\ []LevelInRange
    /\ [][IsStep => (\A pid \in Pids : LevelStep(pid)) /\ WakeToLevelZero]_vars

\* A process woken by this step's wake pass is at level 0 when the step
\* ends, or at level 1 when it was also dispatched (from queue 0) and
\* preempted within the step.
LevelStepOfWoken(pid) ==
    /\ process_pool[pid].state = "Blocked"
    /\ WokeInThisPass(pid)
    /\ \/ process_pool'[pid].queue_level = 0
       \/ /\ process_pool'[pid].queue_level = 1
          /\ LoggedInStep("dispatch", <<pid, 0, 1>>)
          /\ LoggedInStep("preempted", <<pid, 1>>)

\* C17: queue_level is always in {0, 1, 2}; across a step() it stays the
\* same, increases by exactly 1 (only on preemption, never beyond 2), or,
\* only for a process woken in that step, becomes 0, or 1 when the woken
\* process is also dispatched and preempted in the same step; every wake
\* puts the process at level 0.
C17_LevelDisciplineWithinTick ==
    /\ []LevelInRange
    /\ [][IsStep => /\ \A pid \in Pids : LevelStep(pid) \/ LevelStepOfWoken(pid)
                    /\ WakeToLevelZero]_vars

\* A process that blocked at level 2 was woken, dispatched from queue 0 and
\* preempted to queue 1 within this tick.
C17_Witness ==
    /\ last_op = <<"step">>
    /\ ready_queues[2] # <<>>
    /\ LET pid == Last(ready_queues[2])
       IN  /\ LoggedNow("preempted", <<pid, 1>>, <<>>)
           /\ LoggedNow("dispatch", <<pid, 0, 1>>, <<>>)
           /\ \E i \in DOMAIN event_log :
                 /\ event_log[i][1] = clock
                 /\ event_log[i][2] \in {"woke_io", "woke_reason"}
                 /\ event_log[i][3] = <<pid>>
           /\ \E i \in DOMAIN event_log :
                 /\ event_log[i] = <<event_log[i][1], "dispatch", <<pid, 2, 4>>, <<>>>>
                 /\ \A j \in (i + 1)..Len(event_log) :
                       (event_log[j][2] = "dispatch" /\ event_log[j][3][1] = pid)
                          => event_log[j][1] = clock

----------------------------------------------------------------------------
(* C18 *)

Buckets ==
    ready_queues[1] \o ready_queues[2] \o ready_queues[3] \o blocked \o finished

\* C18: a process is in at most one of the running slot, the ready queues,
\* the blocked list and the finished list, and at most once in it; the
\* buckets hold pids of the pool only.
C18_AtMostOneBucket ==
    /\ \A pid \in Pids : Occurrences(pid) <= 1
    /\ \A i \in DOMAIN Buckets : Buckets[i] \in Pids
    /\ running # NoPid => running \in Pids

\* Every kind of bucket is occupied, by processes that have been enqueued
\* by the arrival scan, by preemptions, by a wake pass and by a spawn.
C18_Witness ==
    /\ last_op = <<"step">>
    /\ running # NoPid
    /\ ready_queues[1] # <<>>
    /\ ready_queues[2] # <<>>
    /\ ready_queues[3] # <<>>
    /\ blocked # <<>>
    /\ finished # <<>>
    /\ \E i \in DOMAIN event_log : event_log[i][2] = "woke_io"
    /\ \E i \in DOMAIN event_log : event_log[i][2] = "spawned"

----------------------------------------------------------------------------
(* C19 *)

\* Ready queue 0 as the dispatch phase of this step() finds it: what it held
\* when the previous tick ended, then the processes arriving in this tick
\* (in pid order), then the processes this tick's wake pass wakes (in
\* blocked-list order).
ArrivesNow(pid) ==
    process_pool[pid].state = "New" /\ process_pool[pid].arrival_time <= clock'

WakesNow(pid) ==
    IF process_pool[pid].wait_reason # <<>>
    THEN PredicateHolds(process_pool[pid].wait_reason)
    ELSE process_pool[pid].io_timer <= 1

QueueZeroAtDispatch ==
    ready_queues[1]
    \o SelectSeq([i \in 1..(next_pid - 1) |-> i], ArrivesNow)
    \o SelectSeq(blocked, WakesNow)

DispatchLines ==
    {j \in DOMAIN event_log' :
        event_log'[j][1] = clock' /\ event_log'[j][2] = "dispatch"}

Dispatches(pid, level) ==
    /\ Cardinality(DispatchLines) = 1
    /\ LoggedInStep("dispatch", <<pid, level, QuantumOf(level)>>)
    /\ Runner = pid
    /\ ActionPhase.process_pool[pid].state = "Running"
    /\ ActionPhase.process_pool[pid].current_quantum = 0
    /\ ActionPhase.process_pool[pid].queue_level = level
    /\ process_pool[pid].queue_level = level \/ level = 0

DispatchRule ==
    IF running # NoPid
    THEN DispatchLines = {} /\ Runner = running
    ELSE IF QueueZeroAtDispatch # <<>>
    THEN Dispatches(Head(QueueZeroAtDispatch), 0)
    ELSE IF ready_queues[2] # <<>>
    THEN Dispatches(Head(ready_queues[2]), 1)
    ELSE IF ready_queues[3] # <<>>
    THEN Dispatches(Head(ready_queues[3]), 2)
    ELSE DispatchLines = {} /\ Runner = NoPid /\ running' = NoPid

\* C19: when the running slot is empty at the dispatch phase, the process
\* dispatched is the head of the lowest-numbered non-empty ready queue; it
\* starts with current_quantum = 0 and the queue's level; nothing is
\* dispatched while a process holds the running slot.
C19_DispatchRule == [][IsStep => DispatchRule]_vars

\* A process has been dispatched from queue 1 in this tick although queue 2
\* holds processes that have waited longer.
C19_Witness ==
    /\ last_op = <<"step">>
    /\ ready_queues[3] # <<>>
    /\ \E pid \in Pids :
          /\ LoggedNow("dispatch", <<pid, 1, 2>>, <<>>)
          /\ \E i \in DOMAIN event_log :
                /\ event_log[i] = <<event_log[i][1], "preempted", <<Head(ready_queues[3]), 2>>, <<>>>>
                /\ \E j \in i..Len(event_log) :
                      event_log[j] = <<event_log[j][1], "preempted", <<pid, 1>>, <<>>>>

----------------------------------------------------------------------------
(* C20 *)

\* The three ways out of the running slot.
LeavesRunningSlot(pid) ==
    \/ process_pool'[pid].state = "Finished" /\ LoggedInStep("completed", <<pid>>)
    \/ process_pool'[pid].state = "Blocked" /\ CountIn(blocked', pid) = 1
    \/ /\ process_pool'[pid].state = "Ready"
       /\ PreemptedInStep(pid)
       /\ ActionPhase.process_pool[pid].current_quantum + 1
             = QuantumOf(ActionPhase.process_pool[pid].queue_level)

RunnerKeepsSlot ==
    Runner # NoPid =>
        /\ running' \in {Runner, NoPid}
        /\ running' = NoPid => LeavesRunningSlot(Runner)
        /\ running' = Runner =>
              /\ process_pool'[Runner].state = "Running"
              /\ process_pool'[Runner].current_quantum
                    < QuantumOf(process_pool'[Runner].queue_level)

\* A process that holds the running slot when the tick begins executes this
\* tick's action, whatever arrives, wakes or was spawned at level 0.
NotDisplaced ==
    running # NoPid =>
        /\ Runner = running
        /\ DispatchLines = {}
        /\ LoggedInStep("action", <<running, process_pool[running].pointer>>)
        /\ process_pool'[running].state # "Blocked"
              => process_pool'[running].pointer = process_pool[running].pointer + 1

\* C20: a process leaves the running slot only by finishing, by blocking or
\* by exhausting its quantum; a level-0 process that arrives, wakes or is
\* spawned while a level-1 or level-2 process is in the middle of its
\* quantum does not displace it: the running process executes the next tick.
C20_NoPriorityPreemption == [][IsStep => RunnerKeepsSlot /\ NotDisplaced]_vars

\* A process is in the middle of its quantum at level 1 or 2 and has executed
\* this tick's action although a process spawned, arrived or woken in an
\* earlier tick waits at the head of ready queue 0.
C20_Witness ==
    /\ last_op = <<"step">>
    /\ running # NoPid
    /\ process_pool[running].queue_level >= 1
    /\ process_pool[running].current_quantum >= 2
    /\ ready_queues[1] # <<>>
    /\ \E i \in DOMAIN event_log :
          /\ event_log[i][1] < clock
          /\ event_log[i][2] \in {"spawned", "arrived", "woke_io", "woke_reason"}
          /\ event_log[i][3] = <<Head(ready_queues[1])>>
          /\ \A j \in i..Len(event_log) :
                event_log[j][2] = "dispatch" => event_log[j][3][1] # Head(ready_queues[1])

----------------------------------------------------------------------------
(* C21 *)

\* The record of the access_page call that has just returned.
LastCall == trace[Len(trace)]

\* C21: when access_page returns from a miss that replaced an occupied
\* frame, the evicted (pid, page) is neither in the reverse index nor in
\* any page table as a mapping to the reused frame.
C21_AccessPageUnmapsEvicted ==
    (last_op = <<"access_page">> /\ LastCall.evicted # <<>>) =>
        /\ LastCall.evicted \notin DOMAIN page_locations
        /\ LET table == process_pool[LastCall.evicted[1]].page_table
           IN  ~(/\ LastCall.evicted[2] \in DOMAIN table
                 /\ table[LastCall.evicted[2]] = LastCall.frame)

----------------------------------------------------------------------------
(* C22 *)

\* Slot index i (0-based) is one of the buffer_count slots from buffer_out on.
InWindow(i) == (i + 5 - buffer_out) % 5 < buffer_count

CircularShape ==
    /\ buffer_in \in 0..4
    /\ buffer_out \in 0..4
    /\ buffer_in = (buffer_out + buffer_count) % 5
    /\ \A i \in 0..4 : (buffer_slots[i + 1] # NoPid) <=> InWindow(i)

ProducedLog == SelectSeq(event_log, LAMBDA e : e[2] = "produced")
ConsumedLog == SelectSeq(event_log, LAMBDA e : e[2] = "consumed")

\* The k-th product consumed is the k-th product produced: same slot, and
\* the owner read from the slot is the producer that filled it.
ConsumedInOrder ==
    /\ Len(ProducedLog) - Len(ConsumedLog) = buffer_count
    /\ \A k \in DOMAIN ConsumedLog :
          /\ ConsumedLog[k][3][2] = ProducedLog[k][3][2]
          /\ ConsumedLog[k][3][3] = ProducedLog[k][3][1]
          /\ ConsumedLog[k][3][2] = (k - 1) % 5

ProduceFillsIn ==
    (Called("produce") /\ buffer_count' # buffer_count) =>
        /\ buffer_slots' = [buffer_slots EXCEPT ![buffer_in + 1] = last_op'[2]]
        /\ buffer_in' = (buffer_in + 1) % 5
        /\ buffer_out' = buffer_out
        /\ buffer_count' = buffer_count + 1

ConsumeEmptiesOut ==
    (Called("consume") /\ buffer_count' # buffer_count) =>
        /\ buffer_slots' = [buffer_slots EXCEPT ![buffer_out + 1] = NoPid]
        /\ buffer_out' = (buffer_out + 1) % 5
        /\ buffer_in' = buffer_in
        /\ buffer_count' = buffer_count - 1

\* C22: buffer_in = (buffer_out + buffer_count) mod capacity, the occupied
\* slots are the buffer_count slots from buffer_out on in circular order,
\* a produce fills slot buffer_in, a consume empties slot buffer_out, and
\* products are consumed in the order they were produced.
C22_CircularFifo ==
    /\ [](CircularShape /\ ConsumedInOrder)
    /\ [][ProduceFillsIn /\ ConsumeEmptiesOut]_vars

\* The window of occupied slots wraps around the end of the buffer.
C22_Witness ==
    /\ last_op[1] = "call"
    /\ buffer_out = 2
    /\ buffer_in = 1
    /\ buffer_count = 4
    /\ buffer_slots[2] = NoPid
    /\ buffer_slots[1] # NoPid

----------------------------------------------------------------------------
(* C23 *)

OnCountdown(proc) == proc.io_timer > 0
OnCondition(proc) == proc.wait_reason # <<>>

\* C23: no process has io_timer > 0 together with a wait reason; a process
\* in the blocked list has exactly one of the two; a process that is not
\* Blocked has io_timer = 0 and no wait reason.
C23_BlockKindsExclusive ==
    /\ \A pid \in Pids :
          /\ ~(OnCountdown(process_pool[pid]) /\ OnCondition(process_pool[pid]))
          /\ process_pool[pid].io_timer >= 0
          /\ process_pool[pid].state # "Blocked" =>
                ~OnCountdown(process_pool[pid]) /\ ~OnCondition(process_pool[pid])
    /\ \A i \in DOMAIN blocked :
          /\ process_pool[blocked[i]].state = "Blocked"
          /\ OnCountdown(process_pool[blocked[i]]) # OnCondition(process_pool[blocked[i]])

\* The blocked list holds a process on a countdown of several ticks next to
\* a process waiting on a condition.
C23_Witness ==
    /\ last_op = <<"step">>
    /\ \E i, j \in DOMAIN blocked :
          /\ process_pool[blocked[i]].io_timer >= 2
          /\ OnCondition(process_pool[blocked[j]])

----------------------------------------------------------------------------
(* C24 *)

KnownKinds ==
    {"cpu", "io", "mem", "produce", "consume", "file_create", "file_write",
     "file_read", "file_delete", "res_acquire", "res_release"}

\* What the tail of a cpu action does to the process that executed it: it
\* finishes at the end of its script, is preempted when the quantum is used
\* up, and keeps the CPU otherwise.
AccountedAsCpu ==
    LET proc == ActionPhase.process_pool[Runner]
    IN  /\ process_pool'[Runner].pointer = proc.pointer + 1
        /\ IF proc.pointer + 1 = Len(proc.actions)
           THEN process_pool'[Runner].state = "Finished" /\ running' = NoPid
           ELSE IF proc.current_quantum + 1 >= QuantumOf(proc.queue_level)
           THEN /\ process_pool'[Runner].state = "Ready"
                /\ process_pool'[Runner].queue_level = Min(proc.queue_level + 1, 2)
                /\ running' = NoPid
           ELSE /\ process_pool'[Runner].state = "Running"
                /\ process_pool'[Runner].current_quantum = proc.current_quantum + 1
                /\ running' = Runner

UnknownKindIsNoOp ==
    /\ AccountedAsCpu
    /\ MemoryUnchanged
    /\ BufferUnchanged
    /\ mutex_owner' = mutex_owner
    /\ ResourcesUnchanged
    /\ files' = files

\* C24: an action of a kind outside the known set advances the cursor, is
\* accounted like a cpu action, and leaves memory, buffer, mutex, resource
\* counts and file table unchanged.
C24_UnknownKindNoOp ==
    [][(IsStep /\ Runner # NoPid /\ Attempted.kind \notin KnownKinds /\ Attempted.kind # "None")
       => UnknownKindIsNoOp]_vars

----------------------------------------------------------------------------
(* C25 *)

PagesOf(pid) == Max(process_pool[pid].memory_pages, 1)

\* Every resident key and every page-table key is a page of its process, and
\* no process has more resident pages than it has pages.
PagesInRange ==
    /\ \A f \in DOMAIN frame_table :
          frame_table[f] # <<>> =>
              /\ frame_table[f][1] \in DOMAIN process_pool
              /\ frame_table[f][2] \in 0..(PagesOf(frame_table[f][1]) - 1)
    /\ \A key \in DOMAIN page_locations :
          key[1] \in DOMAIN process_pool /\ key[2] \in 0..(PagesOf(key[1]) - 1)
    /\ \A pid \in DOMAIN process_pool :
          /\ DOMAIN process_pool[pid].page_table \subseteq 0..(PagesOf(pid) - 1)
          /\ Cardinality({f \in DOMAIN frame_table :
                             frame_table[f] # <<>> /\ frame_table[f][1] = pid})
                <= PagesOf(pid)

\* The call just made looked up page v mod max(memory_pages, 1): a hit iff
\* that page was resident, and the page is in the returned frame afterwards.
AccessNormalizes ==
    LET r == trace'[Len(trace')]
        key == <<r.pid, r.page % PagesOf(r.pid)>>
    IN  /\ r.fault = (key \notin DOMAIN page_locations)
        /\ ~r.fault => r.frame = page_locations[key] /\ frame_table' = frame_table
        /\ r.fault => r.frame = Head(replacement_queue)
        /\ frame_table'[r.frame + 1] = key
        /\ page_locations'[key] = r.frame
        /\ process_pool'[r.pid].page_table[key[2]] = r.frame
        /\ last_access' = r.frame

\* C25: a mem access to virtual page v looks up and installs page
\* v mod max(memory_pages, 1); every resident key and every page-table key is
\* in 0..max(memory_pages, 1) - 1, and no process has more than
\* max(memory_pages, 1) resident pages.
C25_PageNormalization ==
    /\ []PagesInRange
    /\ [][last_op' = <<"access_page">> => AccessNormalizes]_vars

\* A process without pages has accessed page 2 and hit its page 0, and a
\* process of two pages has faulted on page 2, loading its page 0.
C25_Witness ==
    /\ process_pool[1].memory_pages = 0
    /\ last_op = <<"access_page">>
    /\ LastCall.pid = 1 /\ LastCall.page = 2 /\ ~LastCall.fault
    /\ frame_table[LastCall.frame + 1] = <<1, 0>>
    /\ \E i \in DOMAIN trace :
          /\ trace[i].pid = 2 /\ trace[i].page = 2 /\ trace[i].fault
          /\ 0 \in DOMAIN process_pool[2].page_table

----------------------------------------------------------------------------
(* C26 *)

\* C26: between ticks the mutex is free and no process waits for it: every
\* produce and consume releases it within its own action, also when it
\* blocks on a full or empty buffer.
C26_MutexFreeBetweenTicks ==
    /\ mutex_owner = NoPid
    /\ \A pid \in DOMAIN process_pool :
          process_pool[pid].wait_reason # WAIT_MUTEX

\* A produce has blocked on the full buffer after five that succeeded.
C26_Witness ==
    /\ last_op = <<"step">>
    /\ buffer_count = buffer_capacity
    /\ \E pid \in DOMAIN process_pool :
          /\ process_pool[pid].state = "Blocked"
          /\ process_pool[pid].wait_reason = WAIT_SLOT
          /\ CountIn(blocked, pid) = 1
    /\ \E i \in DOMAIN event_log : event_log[i][2] = "produced"
    /\ mutex_owner = NoPid

----------------------------------------------------------------------------
(* C27 *)

\* The replacement queue holds each frame index exactly once.
QueueIsPermutation ==
    /\ Len(replacement_queue) = frames
    /\ \A f \in 0..(frames - 1) : CountIn(replacement_queue, f) = 1

\* C27: the replacement queue is a permutation of 0..F-1 before and after
\* every access_page; the k-th fault installs into frame (k-1) mod F, and
\* the first F faults evict nothing.
C27_RoundRobinFrames ==
    /\ [](/\ QueueIsPermutation
          /\ \A k \in DOMAIN Faults :
                /\ Faults[k].frame = (k - 1) % frames
                /\ k <= frames => Faults[k].evicted = <<>>)
    /\ [][(last_op' = <<"access_page">> /\ trace'[Len(trace')].evicted # <<>>)
             => \A f \in DOMAIN frame_table : frame_table[f] # <<>>]_vars

\* Five faults on three frames: the fourth and fifth wrap around to frames 0
\* and 1 and evict.
C27_Witness ==
    /\ frames = 3
    /\ Len(Faults) = 5
    /\ Faults[4].frame = 0 /\ Faults[4].evicted # <<>>
    /\ Faults[5].frame = 1 /\ Faults[5].evicted # <<>>
    /\ replacement_queue = <<2, 0, 1>>

----------------------------------------------------------------------------
(* C28 *)

\* After the arrival scan and the wake pass of the step about to be taken,
\* a process holds the CPU or waits in a ready queue.
WorkAvailable ==
    \/ running # NoPid
    \/ QueueZeroAtDispatch # <<>>
    \/ ready_queues[2] # <<>>
    \/ ready_queues[3] # <<>>

LinesOfStep(tag) ==
    {j \in DOMAIN event_log' : event_log'[j][1] = clock' /\ event_log'[j][2] = tag}

\* C28: work conservation. In a step with a running process or a non-empty
\* ready queue after arrivals and wake-ups, a process executes at the action
\* phase and the idle branch is not taken; the idle branch is taken only when
\* nothing runs and all three queues are empty. (A process at the end of its
\* script completes without an action line.)
C28_WorkConserving ==
    [][IsStep =>
          IF WorkAvailable
          THEN /\ Runner # NoPid
               /\ LinesOfStep("idle") = {}
               /\ IF Attempted.kind = "None"
                  THEN Cardinality(LinesOfStep("completed")) = 1
                  ELSE Cardinality(LinesOfStep("action")) = 1
          ELSE /\ Runner = NoPid
               /\ Cardinality(LinesOfStep("idle")) = 1
               /\ LinesOfStep("action") = {}
               /\ LinesOfStep("dispatch") = {}
               /\ running' = NoPid]_vars

\* The CPU has just idled with every live process blocked, after ticks in
\* which processes were dispatched from the lower queues.
C28_Witness ==
    /\ last_op = <<"step">>
    /\ running = NoPid
    /\ blocked # <<>>
    /\ \E i \in DOMAIN event_log : event_log[i][1] = clock /\ event_log[i][2] = "idle"
    /\ \E i \in DOMAIN event_log : event_log[i][2] = "dispatch" /\ event_log[i][3][2] = 2

----------------------------------------------------------------------------
(* C29 *)

TemplatePids == 1..Len(default_templates)

TemplatesFinished ==
    \A pid \in TemplatePids :
        /\ process_pool[pid].state = "Finished"
        /\ CountIn(finished, pid) = 1

\* C29: from the fresh simulator, with step() called again and again, each
\* of the six template processes reaches Finished. The run is deterministic,
\* so "eventually" is a tick of that run: the last of the six finishes at
\* tick 205.
C29_TemplatesFinish == clock >= 205 => TemplatesFinished

\* The six template processes have finished while spawned jobs are still
\* blocked; on the way one of the six had been demoted to the last queue and
\* one had waited for its I/O.
C29_Witness ==
    /\ clock >= 205
    /\ TemplatesFinished
    /\ blocked # <<>>
    /\ next_pid > 50
    /\ \E i \in DOMAIN event_log :
          /\ event_log[i][2] = "blocked_io"
          /\ event_log[i][3][1] \in TemplatePids
    /\ \E i \in DOMAIN event_log :
          /\ event_log[i][2] = "preempted"
          /\ event_log[i][3] \in {<<pid, 2>> : pid \in TemplatePids}
====
